---- MODULE Spec2Model ----
(***************************************************************************)
(* Pod assignment and order-fragment construction of the RenEx SDK         *)
(* (src/src/lib/ingress.ts): getPods and buildOrderFragmentsForPods.       *)
(*                                                                         *)
(* The darknode registry contract is the environment: its node list,       *)
(* registration flags, minimum pod size and epoch are inputs.  getPods is  *)
(* modelled statement by statement; every await of a registry query is a   *)
(* step of its own.                                                        *)
(*                                                                         *)
(* Spec      getPods on every short list (repeated and unregistered        *)
(*           addresses included), called once and then once more.          *)
(* SpecBuild getPods and buildOrderFragmentsForPods on short lists of       *)
(*           registered darknodes: the computations of the pools (n, k,    *)
(*           the eight splits, one key lookup and one fragment per         *)
(*           darknode) interleave at their awaits; the reducer merges      *)
(*           them in pool order.                                           *)
(* SpecSizes getPods and the first pool's n and k on longer lists.         *)
(* SpecOrder verifyOrder, getOrderID and openOrder on orders at the bounds *)
(*           of verifyOrder.                                               *)
(* SpecLive  getPods while the registry registers and deregisters nodes.   *)
(* SpecVerify  sdk.verifyOrder (unnamed/part_002) with randomNonce.          *)
(* SpecOpen    sdk.openOrder (methods/orderbookMethods.ts): defaults,        *)
(*             input checks and the four submissions.                        *)
(* SpecStatus  sdk.status, settlementStatus and matchDetails                 *)
(*             (methods/settlementMethods.ts) with the two storage           *)
(*             updates that are not awaited.                                 *)
(* SpecFetch   fetchOrderStatus (unnamed/part_001).                          *)
(* SpecList    getOrders and listOrders on short orderbooks.                 *)
(* SpecEncoded EncodedData (lib/encodedData.ts): buffer to text and back.    *)
(***************************************************************************)
EXTENDS Integers, Sequences, FiniteSets, TLC

\* ---- bounds of the model ------------------------------------------------
NumAddrs == 3          \* darknode addresses 1..NumAddrs
MaxNodes == 3          \* longest list returned by getDarknodes
MaxPodSize == 3        \* largest minimumPodSize of the registry
MaxEpoch == 4          \* largest epoch value of the registry
MaxPodMembers == 12    \* longest list of the pod-size specification
MaxBuildNodes == 4     \* longest list of the builder specification
MaxBytes == 2          \* longest byte string of the encoding specification

Addrs == 1..NumAddrs

VARIABLES
    darknodes,        \* registry: result of getDarknodes(NULL, 100)
    registered,       \* registry: address -> isRegistered
    minimumPodSize,   \* registry: minimumPodSize()
    epoch,            \* registry: currentEpoch()[0]
    pc,               \* position of the running call
    x,                \* getPods: cursor (a BN reduced mod numberOfDarknodes)
    i,                \* getPods: outer loop counter
    isRegistered,     \* getPods: last answer of isRegistered
    positionInOcean,  \* getPods: slot -> -1 or the step that used the slot
    pools,            \* getPods: List<Pool>
    numberOfPods,     \* getPods: number of pods
    error,            \* rejection message of the call, "" if none
    queried,          \* an isRegistered query was made by the current call
    callNo,           \* 1 for the first call of getPods, 2 for the second
    prevPools,        \* pods returned by the first call
    prevEpoch,        \* epoch read by the first call
    order,            \* buildOrderFragmentsForPods: the order argument
    nextPool,         \* buildOrderFragmentsForPods: next pool of pods.map
    podN,             \* per pool: n
    podK,             \* per pool: k
    shares,           \* per pool: field -> List<Share>
    orderId,          \* getOrderID: the preimage and the id last computed
    firstOrder,       \* the order of the previous getOrderID call
    firstId,          \* the result of the previous getOrderID call
    publicKeys,       \* registry: address -> answer of getDarknodePublicKey
    poolI,            \* per pool: loop counter i of the fragment loop
    poolFragments,    \* per pool: orderFragments
    poolStatus,       \* per pool: state of the pool's promise
    completed,        \* the pools in the order in which their promises settled
    reduced,          \* number of pools the reducer has merged
    result,           \* the Map of the reducer: pod id -> fragments
    startRegistered,  \* registry: the registration flags when the call began
    inputs,           \* SDK method: the argument of the running call
    env,              \* SDK method: the answers of the contracts, Swapper and clock
    effects,          \* SDK method: the submissions and storage writes made, in order
    stored,           \* sdk._storage: the stored order
    returned,         \* SDK method: the value returned
    tasks             \* the storage updates started without awaiting them

vars == <<darknodes, registered, minimumPodSize, epoch, pc, x, i, isRegistered,
          positionInOcean, pools, numberOfPods, error, queried, callNo,
          prevPools, prevEpoch, order, nextPool, podN, podK, shares,
          orderId, firstOrder, firstId, publicKeys, poolI, poolFragments,
          poolStatus, completed, reduced, result, startRegistered,
          inputs, env, effects, stored, returned, tasks>>

registryVars == <<darknodes, registered, minimumPodSize, publicKeys>>
podVars == <<x, i, isRegistered, positionInOcean, pools, numberOfPods>>
buildVars == <<order, nextPool, podN, podK, shares>>
idVars == <<orderId, firstOrder, firstId>>
liveVars == <<startRegistered>>
sdkVars == <<inputs, env, effects, stored, returned, tasks>>
fragVars == <<poolI, poolFragments, poolStatus, completed, reduced, result>>

\* ---- helpers ------------------------------------------------------------
RECURSIVE SeqsUpTo(_, _)
SeqsUpTo(S, n) ==
    IF n = 0 THEN {<<>>}
    ELSE LET shorter == SeqsUpTo(S, n - 1)
         IN  shorter \cup {Append(s, a) : s \in {t \in shorter : Len(t) = n - 1}, a \in S}

Range(s) == {s[j] : j \in 1..Len(s)}

\* ---- messages -----------------------------------------------------------
ErrNoDarknodes == "no darknodes in contract"
ErrInvalidPodSize == "invalid minimum pod size (0)"
NoError == ""

\* ---- answers of darknodeRegistryContract.getDarknodePublicKey -----------
KeyHex == "hex"           \* the hex string of a well-formed key
KeyNull == "null"         \* null
KeyEmpty == "empty"       \* the string of length 0
KeyRejects == "rejects"   \* the call rejects
KeyAnswers == {KeyHex, KeyNull, KeyEmpty, KeyRejects}

\* Map<string, List<OrderFragment>>()
EmptyMap == <<>>

\* ---- Pool record and pod ids -------------------------------------------
NoId == <<>>
NewPool == [id |-> NoId, darknodes |-> <<>>]

\* new Buffer(darknode.substring(2), "hex"): the raw bytes of an address
\* (addresses have one fixed width; here one byte)
AddressBytes(a) == <<a>>

RECURSIVE ConcatBytes(_)
ConcatBytes(members) ==
    IF members = <<>> THEN <<>>
    ELSE AddressBytes(Head(members)) \o ConcatBytes(Tail(members))

\* web3.utils.keccak256: collision free, a digest is never the empty id
Keccak256(bytes) == <<bytes>>

PodId(members) == Keccak256(ConcatBytes(members))

\* ---- getPods ------------------------------------------------------------
\* darknodeRegistryContract.isRegistered(address)
IsRegisteredQuery(a) == registered[a]

\* darknodes[x.toNumber()]
NodeAt(slot) == darknodes[slot + 1]

\* a slip: one pod too many
NumberOfPodsPlusOne(total, minimum) == (total \div minimum) + 1

NumberOfPods(total, minimum) ==
    IF total \div minimum = 0 THEN 1 ELSE total \div minimum

\* slips: the cursor left by the previous call is reused; the epoch is ignored
StartCursorStale(epochVal, total) == (x + epochVal) % total
StartCursorZero(epochVal, total) == 0

StartCursor(epochVal, total) == epochVal % total

AdvanceCursor(cursor, total) == (cursor + 1) % total

\* a slip: the cursor moves on by one slot, whatever the epoch
StrideCursorOne(cursor, epochVal, total) == (cursor + 1) % total

StrideCursor(cursor, epochVal, total) == (cursor + epochVal) % total

\* a slip: every node goes to the first pod
PoolIndexFirst(step, pods) == 0

PoolIndex(step, pods) == step % pods

FreshPositions(total) == [slot \in 0..(total - 1) |-> -1]

RECURSIVE FreshPools(_)
FreshPools(count) ==
    IF count = 0 THEN <<>> ELSE Append(FreshPools(count - 1), NewPool)

\* a slip: the pod size is checked before the list
RejectionSwapped(nodes, minimum) ==
    IF minimum = 0 THEN ErrInvalidPodSize
    ELSE IF Len(nodes) = 0 THEN ErrNoDarknodes
    ELSE NoError

\* lines 333-339: the two rejections, the empty list first
Rejection(nodes, minimum) ==
    IF Len(nodes) = 0 THEN ErrNoDarknodes
    ELSE IF minimum = 0 THEN ErrInvalidPodSize
    ELSE NoError

\* slips: the registration flag is not tested; the used slots are not tested
MustAdvanceUsedOnly(answer, slot) == positionInOcean[slot] # -1
MustAdvanceUnregisteredOnly(answer, slot) == ~answer

\* the condition of the inner while loop
MustAdvance(answer, slot) == ~answer \/ positionInOcean[slot] # -1

\* lines 329-354: the three registry reads, the two rejections, the set-up
GetPodsEnter ==
    /\ pc = "getPods"
    /\ IF Rejection(darknodes, minimumPodSize) # NoError
       THEN /\ pc' = "rejected"
            /\ error' = Rejection(darknodes, minimumPodSize)
            /\ UNCHANGED podVars
       ELSE /\ pc' = "outer"
            /\ error' = NoError
            /\ x' = StartCursor(epoch, Len(darknodes))
            /\ positionInOcean' = FreshPositions(Len(darknodes))
            /\ numberOfPods' = NumberOfPods(Len(darknodes), minimumPodSize)
            /\ pools' = FreshPools(NumberOfPods(Len(darknodes), minimumPodSize))
            /\ i' = 0
            /\ UNCHANGED isRegistered
    /\ UNCHANGED <<fragVars, sdkVars, liveVars, idVars, registryVars, epoch, queried, callNo, prevPools, prevEpoch, buildVars>>

\* lines 356-357: the loop test and the first isRegistered query of a step
OuterLoop ==
    /\ pc = "outer"
    /\ IF i < Len(darknodes)
       THEN /\ isRegistered' = IsRegisteredQuery(NodeAt(x))
            /\ queried' = TRUE
            /\ pc' = "while"
       ELSE /\ pc' = "ids"
            /\ UNCHANGED <<isRegistered, queried>>
    /\ UNCHANGED <<fragVars, sdkVars, startRegistered, idVars, registryVars, epoch, x, i, positionInOcean, pools, numberOfPods,
                   error, callNo, prevPools, prevEpoch, buildVars>>

\* lines 358-362: one turn of the inner loop, up to its isRegistered query
Probe ==
    /\ pc = "while"
    /\ MustAdvance(isRegistered, x)
    /\ x' = AdvanceCursor(x, Len(darknodes))
    /\ isRegistered' = IsRegisteredQuery(NodeAt(AdvanceCursor(x, Len(darknodes))))
    /\ queried' = TRUE
    /\ UNCHANGED <<fragVars, sdkVars, startRegistered, idVars, registryVars, epoch, pc, i, positionInOcean, pools, numberOfPods,
                   error, callNo, prevPools, prevEpoch, buildVars>>

\* lines 364-374: the slot is taken and its node appended to a pod
Assign ==
    /\ pc = "while"
    /\ ~MustAdvance(isRegistered, x)
    /\ positionInOcean' = [positionInOcean EXCEPT ![x] = i]
    /\ LET poolIndex == PoolIndex(i, numberOfPods)
           pool == [id |-> NoId,
                    darknodes |-> Append(pools[poolIndex + 1].darknodes, NodeAt(x))]
       IN  pools' = [pools EXCEPT ![poolIndex + 1] = pool]
    /\ x' = StrideCursor(x, epoch, Len(darknodes))
    /\ i' = i + 1
    /\ pc' = "outer"
    /\ UNCHANGED <<fragVars, sdkVars, liveVars, idVars, registryVars, epoch, isRegistered, numberOfPods, error, queried,
                   callNo, prevPools, prevEpoch, buildVars>>

\* lines 376-395: every pod gets its id, and the list is returned
ComputeIds ==
    /\ pc = "ids"
    /\ pools' = [p \in 1..Len(pools) |->
                    [id |-> PodId(pools[p].darknodes), darknodes |-> pools[p].darknodes]]
    /\ pc' = "returned"
    /\ UNCHANGED <<fragVars, sdkVars, liveVars, idVars, registryVars, epoch, x, i, isRegistered, positionInOcean, numberOfPods,
                   error, queried, callNo, prevPools, prevEpoch, buildVars>>

\* a second order is built: getPods runs again, at the epoch the registry has then
SecondCall ==
    /\ pc = "returned"
    /\ callNo = 1
    /\ callNo' = 2
    /\ prevPools' = pools
    /\ prevEpoch' = epoch
    /\ \E e \in 0..MaxEpoch : epoch' = e
    /\ queried' = FALSE
    /\ pc' = "getPods"
    /\ UNCHANGED <<fragVars, sdkVars, startRegistered, idVars, registryVars, podVars, error, buildVars>>

\* the registry contract registers or deregisters a darknode while the loop
\* of getPods is between two of its awaits
RegistryChange ==
    /\ pc \in {"outer", "while"}
    /\ \E a \in DOMAIN registered : registered' = [registered EXCEPT ![a] = ~@]
    /\ UNCHANGED <<fragVars, sdkVars, liveVars, idVars, darknodes, minimumPodSize, publicKeys, epoch,
                   pc, podVars, error, queried, callNo, prevPools, prevEpoch, buildVars>>

\* ---- shamir (the secret-sharing module imported as @Lib/shamir) ---------
\* the field prime; it exceeds every value verifyOrder accepts
PRIME == 2003

RECURSIVE Pow(_, _)
Pow(base, e) ==
    IF e = 0 THEN 1
    ELSE IF e % 2 = 0 THEN Pow((base * base) % PRIME, e \div 2)
    ELSE (base * Pow(base, e - 1)) % PRIME

\* the polynomial secret + c[1] X + ... + c[k-1] X^(k-1) at X = at, in the field
RECURSIVE EvalPoly(_, _, _)
EvalPoly(secret, coeffs, at) ==
    IF coeffs = <<>> THEN secret % PRIME
    ELSE (EvalPoly(secret, SubSeq(coeffs, 1, Len(coeffs) - 1), at)
            + coeffs[Len(coeffs)] * Pow(at, Len(coeffs))) % PRIME

\* split accepts 1 <= k <= n and secret < PRIME
ValidSplit(n, k, secret) == n >= 1 /\ k >= 1 /\ k <= n /\ secret < PRIME

\* split(n, k, secret) with the k-1 random coefficients drawn: share i is (i, poly(i))
Split(n, k, secret, coeffs) ==
    [j \in 1..n |-> [index |-> j, value |-> EvalPoly(secret, coeffs, j)]]

\* the inverse of a non-zero element, a^(PRIME - 2)
Inverse(a) == Pow(a % PRIME, PRIME - 2)

RECURSIVE ProductOver(_, _)
ProductOver(f, S) ==
    IF S = {} THEN 1
    ELSE LET e == CHOOSE e \in S : TRUE
         IN  (f[e] * ProductOver(f, S \ {e})) % PRIME

RECURSIVE SumOver(_, _)
SumOver(f, S) ==
    IF S = {} THEN 0
    ELSE LET e == CHOOSE e \in S : TRUE
         IN  (f[e] + SumOver(f, S \ {e})) % PRIME

\* Lagrange interpolation at 0 of a set of shares with distinct indices
Reconstruct(held) ==
    LET basis(s) ==
            ProductOver([t \in held \ {s} |->
                            (t.index * Inverse((t.index - s.index) % PRIME)) % PRIME],
                        held \ {s})
    IN  SumOver([s \in held |-> (s.value * basis(s)) % PRIME], held)

\* ---- buildOrderFragmentsForPods ----------------------------------------
\* the eight values of an order that are split, in the order of lines 212-219
FieldSeq == <<"tokens", "price.c", "price.q", "volume.c", "volume.q",
              "minimumVolume.c", "minimumVolume.q", "nonce">>
Fields == Range(FieldSeq)
FieldNo(f) == CHOOSE j \in 1..Len(FieldSeq) : FieldSeq[j] = f

\* the fields of an Order (lines 43-55); price, volume and minimumVolume are
\* Tuples of a mantissa c and an exponent q
MetaKeys == {"signature", "id", "type", "parity", "orderSettlement", "expiry"}
OrderKeys == MetaKeys \cup Fields

NoOrder == [f \in OrderKeys |-> -1]

\* an order with the given price mantissa
OrderWithPrice(c) ==
    [f \in OrderKeys |->
        CASE f = "signature" -> 71
          [] f = "id" -> 72
          [] f = "type" -> 1
          [] f = "parity" -> 0
          [] f = "orderSettlement" -> 2
          [] f = "expiry" -> 1000
          [] f = "tokens" -> 258
          [] f = "price.c" -> c
          [] f = "price.q" -> 2
          [] f = "volume.c" -> 3
          [] f = "volume.q" -> 1
          [] f = "minimumVolume.c" -> 2
          [] f = "minimumVolume.q" -> 1
          [] f = "nonce" -> 4]

\* the orders given to the builder: price mantissas at and beyond the bounds
Orders == {OrderWithPrice(c) : c \in {0, 1999, 2000}}

\* the coefficients the random source draws
Coefficients == {0, 1, PRIME - 1}

\* the draws of the random source of one pool: each split sees every list of
\* Coefficients; the eight lists of a pool are shifts of one another
RandomTapes(k) ==
    {[f \in Fields |-> [j \in 1..Len(c) |-> (c[j] + FieldNo(f) - 2) % PRIME]] :
        c \in {t \in SeqsUpTo(Coefficients, k - 1) : Len(t) = k - 1}}

ErrInvalidParameters == "InvalidParameters"

\* slips: the + 1 is dropped; the threshold is rounded up
ThresholdNoPlusOne(n) == (2 * n) \div 3
ThresholdRoundedUp(n) == (2 * (n + 2)) \div 3

\* line 210
Threshold(n) == (2 * (n + 1)) \div 3

\* lines 204-208: the call; getPods has returned and pods.map begins
BuildEnter ==
    /\ pc = "returned"
    /\ \E o \in Orders : order' = o
    /\ nextPool' = 0
    /\ podN' = <<>>
    /\ podK' = <<>>
    /\ shares' = <<>>
    /\ pc' = "map"
    /\ UNCHANGED <<fragVars, sdkVars, liveVars, idVars, registryVars, epoch, podVars, error, queried, callNo, prevPools, prevEpoch>>

\* lines 209-210: n and k of the next pool
PoolParams ==
    /\ pc = "map"
    /\ nextPool < Len(pools)
    /\ podN' = Append(podN, Len(pools[nextPool + 1].darknodes))
    /\ podK' = Append(podK, Threshold(Len(pools[nextPool + 1].darknodes)))
    /\ pc' = "split"
    /\ UNCHANGED <<fragVars, sdkVars, liveVars, idVars, registryVars, epoch, podVars, error, queried, callNo, prevPools,
                   prevEpoch, order, nextPool, shares>>

\* lines 212-229: the eight splits of the pool, the empty fragment list, and
\* the loop up to its first await (n >= 1: the key of the first darknode)
PoolSplit ==
    /\ pc = "split"
    /\ LET n == podN[nextPool + 1]
           k == podK[nextPool + 1]
       IN  IF \A f \in Fields : ValidSplit(n, k, order[f])
           THEN /\ \E tape \in RandomTapes(k) :
                      shares' = Append(shares,
                                       [f \in Fields |-> Split(n, k, order[f], tape[f])])
                /\ poolI' = Append(poolI, 0)
                /\ poolFragments' = Append(poolFragments, <<>>)
                /\ poolStatus' = Append(poolStatus, "awaitKey")
                /\ nextPool' = nextPool + 1
                /\ pc' = "map"
                /\ error' = error
           ELSE /\ pc' = "rejected"
                /\ error' = ErrInvalidParameters
                /\ UNCHANGED <<nextPool, shares, poolI, poolFragments, poolStatus>>
    /\ UNCHANGED <<completed, reduced, result, sdkVars, liveVars, idVars, registryVars, epoch, podVars, queried,
                   callNo, prevPools, prevEpoch, order, podN, podK>>

\* pods.map has started the computation of every pool
MapDone ==
    /\ pc = "map"
    /\ nextPool = Len(pools)
    /\ pc' = "mapped"
    /\ UNCHANGED <<fragVars, sdkVars, liveVars, idVars, registryVars, epoch, podVars, error, queried, callNo, prevPools,
                   prevEpoch, buildVars>>

\* ---- verifyOrder, getOrderID and openOrder --------------------------------
ErrorInvalidOrderDetails == "Something went wrong while encoding order"

\* a slip: the bounds of minimumVolume are not tested
VerifyOrderNoMinimum(o) ==
    /\ o["price.c"] >= 0 /\ o["price.c"] <= 1999
    /\ o["price.q"] >= 0 /\ o["price.q"] <= 52
    /\ o["volume.c"] >= 0 /\ o["volume.c"] <= 49
    /\ o["volume.q"] >= 0 /\ o["volume.q"] <= 52

\* lines 125-139
VerifyOrder(o) ==
    LET VALID_PRICE ==
            /\ o["price.c"] >= 0 /\ o["price.c"] <= 1999
            /\ o["price.q"] >= 0 /\ o["price.q"] <= 52
        VALID_VOLUME ==
            /\ o["volume.c"] >= 0 /\ o["volume.c"] <= 49
            /\ o["volume.q"] >= 0 /\ o["volume.q"] <= 52
        VALID_MINIMUM_VOLUME ==
            /\ o["minimumVolume.c"] >= 0 /\ o["minimumVolume.c"] <= 49
            /\ o["minimumVolume.q"] >= 0 /\ o["minimumVolume.q"] <= 52
    IN  VALID_PRICE /\ VALID_VOLUME /\ VALID_MINIMUM_VOLUME

\* a slip: only the lowest byte is written
RECURSIVE ToBytesLowByte(_, _)
ToBytesLowByte(v, width) ==
    IF width = 0 THEN <<>>
    ELSE Append(ToBytesLowByte(0, width - 1), v % 256)

\* new BN(v).toArrayLike(Buffer, "be", width), for 0 <= v < 256^width
RECURSIVE ToBytesBE(_, _)
ToBytesBE(v, width) ==
    IF width = 0 THEN <<>>
    ELSE Append(ToBytesBE(v \div 256, width - 1), v % 256)

\* the bytes of a keccak256 digest
DigestLength == 32
DigestBytes(digest) == [j \in 1..DigestLength |-> digest]

\* the keys of an order that getOrderID reads
HashedKeys == {"type", "parity", "orderSettlement", "expiry", "nonce"} \cup Fields

\* a slip: the mantissa and the exponent of the price change places
PreimageSwapped(o) ==
    ToBytesBE(o["type"], 1) \o ToBytesBE(o["parity"], 1)
        \o ToBytesBE(o["orderSettlement"], 4) \o ToBytesBE(o["expiry"], 8)
        \o ToBytesBE(o["tokens"], 8)
        \o ToBytesBE(o["price.q"], 8) \o ToBytesBE(o["price.c"], 8)
        \o ToBytesBE(o["volume.c"], 8) \o ToBytesBE(o["volume.q"], 8)
        \o ToBytesBE(o["minimumVolume.c"], 8) \o ToBytesBE(o["minimumVolume.q"], 8)
        \o DigestBytes(Keccak256(ToBytesBE(o["nonce"], 8)))

\* lines 187-200: the bytes that are hashed
Preimage(o) ==
    ToBytesBE(o["type"], 1) \o ToBytesBE(o["parity"], 1)
        \o ToBytesBE(o["orderSettlement"], 4) \o ToBytesBE(o["expiry"], 8)
        \o ToBytesBE(o["tokens"], 8)
        \o ToBytesBE(o["price.c"], 8) \o ToBytesBE(o["price.q"], 8)
        \o ToBytesBE(o["volume.c"], 8) \o ToBytesBE(o["volume.q"], 8)
        \o ToBytesBE(o["minimumVolume.c"], 8) \o ToBytesBE(o["minimumVolume.q"], 8)
        \o DigestBytes(Keccak256(ToBytesBE(o["nonce"], 8)))

\* lines 186-202
GetOrderID(o) == [preimage |-> Preimage(o), id |-> Keccak256(Preimage(o))]

\* the values an order field takes in a further order: unchanged, or changed
\* in its first, second or third byte
EditValues(key, old) ==
    IF key \in {"type", "parity"} THEN {old, 1 - old}
    ELSE IF key \in {"signature", "id"} THEN {old, old + 1}
    ELSE {old, old + 1, old + 256, old + 65536}

\* ingress.openOrder, lines 92-98: the order is verified, then hashed
OpenOrder ==
    /\ pc = "order"
    /\ IF VerifyOrder(order)
       THEN /\ orderId' = GetOrderID(order)
            /\ pc' = "signing"
            /\ error' = NoError
       ELSE /\ pc' = "rejected"
            /\ error' = ErrorInvalidOrderDetails
            /\ UNCHANGED orderId
    /\ UNCHANGED <<sdkVars, liveVars, fragVars, registryVars, epoch, podVars, queried, callNo, prevPools, prevEpoch,
                   buildVars, firstOrder, firstId>>

\* getOrderID called on an order whose hashed fields are not negative
GetOrderIDCall ==
    /\ pc \in {"order", "edited"}
    /\ \A key \in HashedKeys : order[key] >= 0
    /\ orderId' = GetOrderID(order)
    /\ pc' = "hashed"
    /\ UNCHANGED <<sdkVars, liveVars, fragVars, registryVars, epoch, podVars, error, queried, callNo, prevPools,
                   prevEpoch, buildVars, firstOrder, firstId>>

\* a further order, equal to the hashed one or differing from it in one field
NextOrder ==
    /\ pc = "hashed"
    /\ firstOrder = NoOrder
    /\ firstOrder' = order
    /\ firstId' = orderId
    /\ \E key \in OrderKeys : \E v \in EditValues(key, order[key]) :
          order' = [order EXCEPT ![key] = v]
    /\ pc' = "edited"
    /\ UNCHANGED <<sdkVars, liveVars, fragVars, registryVars, epoch, podVars, error, queried, callNo, prevPools,
                   prevEpoch, nextPool, podN, podK, shares, orderId>>

\* ---- the fragment loop and the reducer ------------------------------------
ErrKeyLookup == "getDarknodePublicKey rejected"

\* no key
NullKey == [owner |-> 0]

\* a slip: only null counts as a missing key
GetDarknodePublicKeyNullOnly(answer, darknode) ==
    IF answer = KeyNull THEN NullKey ELSE [owner |-> darknode]

\* lines 276-308, for an answer of the registry that is not a rejection:
\* the key of the darknode, or null
GetDarknodePublicKey(answer, darknode) ==
    IF answer = KeyNull \/ answer = KeyEmpty THEN NullKey ELSE [owner |-> darknode]

\* darknodeKey.encrypt(bytes, "buffer"): a ciphertext is bound to the key, is
\* never empty, and is read back only with the key of the owner
Encrypt(key, bytes) == <<key.owner>> \o bytes
Decrypt(key, cipher) == IF cipher[1] = key.owner THEN Tail(cipher) ELSE <<>>

\* EncodedData.toBase64 of a buffer; of no bytes it is the string of length 0
ToBase64(buffer) == <<"base64", buffer>>
EmptyString == ToBase64(<<>>)

\* lines 310-323, followed by toBase64
EncryptForDarknode(darknodeKey, share, byteCount) ==
    IF darknodeKey = NullKey THEN ToBase64(<<>>)
    ELSE ToBase64(Encrypt(darknodeKey,
                          ToBytesBE(share.index, byteCount)
                              \o ToBytesBE(share.value, byteCount)))

\* a slip: the index of a fragment starts at 0
FragmentIndexZeroBased(loopI) == loopI

\* line 252
FragmentIndex(loopI) == loopI + 1

\* List.get(i)
ListGet(list, loopI) == list[loopI + 1]

\* a slip: the type and the parity of the order change places
NewOrderFragmentSwapped(o, darknodeKey, poolShares, loopI) ==
    LET enc(f) == EncryptForDarknode(darknodeKey, ListGet(poolShares[f], loopI), 8)
        fragment ==
            [id |-> NoId,
             orderSignature |-> o["signature"],
             orderId |-> o["id"],
             orderType |-> o["parity"],
             orderParity |-> o["type"],
             orderSettlement |-> o["orderSettlement"],
             orderExpiry |-> o["expiry"],
             tokens |-> enc("tokens"),
             price |-> <<enc("price.c"), enc("price.q")>>,
             volume |-> <<enc("volume.c"), enc("volume.q")>>,
             minimumVolume |-> <<enc("minimumVolume.c"), enc("minimumVolume.q")>>,
             nonce |-> enc("nonce"),
             index |-> FragmentIndex(loopI)]
    IN  [fragment EXCEPT !.id = Keccak256(fragment)]

\* lines 231-254: the fragment of iteration loopI of a pool
NewOrderFragment(o, darknodeKey, poolShares, loopI) ==
    LET enc(f) == EncryptForDarknode(darknodeKey, ListGet(poolShares[f], loopI), 8)
        fragment ==
            [id |-> NoId,
             orderSignature |-> o["signature"],
             orderId |-> o["id"],
             orderType |-> o["type"],
             orderParity |-> o["parity"],
             orderSettlement |-> o["orderSettlement"],
             orderExpiry |-> o["expiry"],
             tokens |-> enc("tokens"),
             price |-> <<enc("price.c"), enc("price.q")>>,
             volume |-> <<enc("volume.c"), enc("volume.q")>>,
             minimumVolume |-> <<enc("minimumVolume.c"), enc("minimumVolume.q")>>,
             nonce |-> enc("nonce"),
             index |-> FragmentIndex(loopI)]
    IN  [fragment EXCEPT !.id = Keccak256(fragment)]

\* a slip: one fragment list is shared by the computations of all pools
FragmentListShared(p) == 1

\* line 221: every computation has a fragment list of its own
FragmentList(p) == p

\* lines 224-257: the registry answers the key lookup of pool p; the fragment
\* is built and pushed, and the loop runs to its next await or to its return
PoolStep(p) ==
    /\ pc = "mapped"
    /\ p \in 1..Len(poolStatus)
    /\ poolStatus[p] = "awaitKey"
    /\ LET darknode == ListGet(pools[p].darknodes, poolI[p])
           answer == publicKeys[darknode]
       IN  IF answer = KeyRejects
           THEN /\ poolStatus' = [poolStatus EXCEPT ![p] = "rejected"]
                /\ completed' = Append(completed, p)
                /\ UNCHANGED <<poolI, poolFragments>>
           ELSE /\ poolFragments' =
                      [poolFragments EXCEPT ![FragmentList(p)] =
                          Append(@, NewOrderFragment(order,
                                                     GetDarknodePublicKey(answer, darknode),
                                                     shares[p], poolI[p]))]
                /\ poolI' = [poolI EXCEPT ![p] = @ + 1]
                /\ IF poolI[p] + 1 < podN[p]
                   THEN UNCHANGED <<poolStatus, completed>>
                   ELSE /\ poolStatus' = [poolStatus EXCEPT ![p] = "resolved"]
                        /\ completed' = Append(completed, p)
    /\ UNCHANGED <<reduced, result, sdkVars, liveVars, idVars, registryVars, epoch, pc, podVars, error, queried,
                   callNo, prevPools, prevEpoch, buildVars>>

\* Map.set
MapSet(map, key, value) ==
    [kk \in DOMAIN map \cup {key} |-> IF kk = key THEN value ELSE map[kk]]

\* lines 261-268: the reducer merges the next pool once its promise is resolved
Merge ==
    /\ pc = "mapped"
    /\ reduced < Len(pools)
    /\ poolStatus[reduced + 1] = "resolved"
    /\ result' = MapSet(result, pools[reduced + 1].id,
                        poolFragments[FragmentList(reduced + 1)])
    /\ reduced' = reduced + 1
    /\ UNCHANGED <<poolI, poolFragments, poolStatus, completed, sdkVars, liveVars, idVars, registryVars, epoch,
                   pc, podVars, error, queried, callNo, prevPools, prevEpoch, buildVars>>

\* lines 264-265: the awaited promise of the next pool is rejected; nothing
\* catches it, so the promise of the build is rejected
MergeRejected ==
    /\ pc = "mapped"
    /\ reduced < Len(pools)
    /\ poolStatus[reduced + 1] = "rejected"
    /\ pc' = "rejected"
    /\ error' = ErrKeyLookup
    /\ UNCHANGED <<fragVars, sdkVars, liveVars, idVars, registryVars, epoch, podVars, queried, callNo,
                   prevPools, prevEpoch, buildVars>>

\* line 260: the last reducer has returned the Map
BuildReturn ==
    /\ pc = "mapped"
    /\ reduced = Len(pools)
    /\ pc' = "built"
    /\ UNCHANGED <<fragVars, sdkVars, liveVars, idVars, registryVars, epoch, podVars, error, queried, callNo,
                   prevPools, prevEpoch, buildVars>>

\* ---- sdk.verifyOrder (unnamed/part_002) and randomNonce ---------------------
ErrInvalidId == "invalid id"

\* an absent number (undefined); an absent id is NoId
Undefined == -1

\* OrderSettlement.RenEx, RenExAtomic; ingress.OrderType.LIMIT; OrderParity
RenEx == "RenEx"
RenExAtomic == "RenExAtomic"
NoSettlement == ""
LIMIT == "LIMIT"
BUY == "BUY"
SELL == "SELL"

\* the values the random source of randomNonce draws
NonceDraws == {5, PRIME, PRIME + 1}

\* lines 36-52: the ingress order of an order object; adjustDecimals and
\* generateTokenPairing are functions of their arguments
IngressOrderOf(o, decimals) ==
    [type |-> LIMIT,
     parity |-> IF o.buyToken < o.sellToken THEN BUY ELSE SELL,
     orderSettlement |-> IF o.orderSettlement # NoSettlement THEN o.orderSettlement ELSE RenEx,
     expiry |-> o.expiry,
     tokens |-> <<"generateTokenPairing", o.buyToken, o.sellToken>>,
     price |-> <<"adjustDecimals", o.price, 0, 12>>,
     volume |-> <<"adjustDecimals", o.volume, decimals, 12>>,
     minimumVolume |-> <<"adjustDecimals", o.minimumVolume, decimals, 12>>,
     nonce |-> o.nonce]

\* lines 54-55: ingress.getOrderID(...).toBase64()
OrderIdOf(ingressOrder) == ToBase64(Keccak256(ingressOrder))

\* a slip: a supplied id is never compared
IdMismatchNever(supplied, computed) == FALSE

\* line 58
IdMismatch(supplied, computed) == supplied # computed

\* lines 23-30: the contracts, the buy token, and the test of the nonce
SdkVerifyEnter ==
    /\ pc = "verify"
    /\ pc' = IF inputs.nonce = Undefined THEN "nonce" ELSE "defaults"
    /\ UNCHANGED <<inputs, env, effects, stored, returned, tasks, liveVars, fragVars, idVars,
                   registryVars, epoch, podVars, error, queried, callNo, prevPools,
                   prevEpoch, buildVars>>

\* ingress.randomNonce, lines 84-90: one draw; a draw that is not below PRIME
\* is thrown away
RandomNonce ==
    /\ pc = "nonce"
    /\ \E draw \in NonceDraws :
          IF draw >= PRIME
          THEN UNCHANGED <<inputs, pc>>
          ELSE /\ inputs' = [inputs EXCEPT !.nonce = draw]
               /\ pc' = "defaults"
    /\ UNCHANGED <<env, effects, stored, returned, tasks, liveVars, fragVars, idVars,
                   registryVars, epoch, podVars, error, queried, callNo, prevPools,
                   prevEpoch, buildVars>>

\* lines 32-65: the default expiry, the id, and its comparison
SdkVerifyReturn ==
    /\ pc = "defaults"
    /\ LET withExpiry == IF inputs.expiry = Undefined
                         THEN [inputs EXCEPT !.expiry = env.now + 60 * 60 * 24]
                         ELSE inputs
           id == OrderIdOf(IngressOrderOf(withExpiry, env.decimals))
       IN  IF withExpiry.id # NoId
           THEN IF IdMismatch(withExpiry.id, id)
                THEN /\ inputs' = withExpiry
                     /\ pc' = "rejected"
                     /\ error' = ErrInvalidId
                     /\ UNCHANGED returned
                ELSE /\ inputs' = withExpiry
                     /\ returned' = withExpiry
                     /\ pc' = "verified"
                     /\ UNCHANGED error
           ELSE /\ inputs' = [withExpiry EXCEPT !.id = id]
                /\ returned' = [withExpiry EXCEPT !.id = id]
                /\ pc' = "verified"
                /\ UNCHANGED error
    /\ UNCHANGED <<env, effects, stored, tasks, liveVars, fragVars, idVars,
                   registryVars, epoch, podVars, queried, callNo, prevPools,
                   prevEpoch, buildVars>>

\* ---- sdk.openOrder (methods/orderbookMethods.ts) ----------------------------
ErrInsufficientBalance == "ErrInsufficientBalance"
ErrInvalidPrice == "Invalid price"
ErrInvalidVolume == "Invalid volume"
ErrInvalidMinimumVolume == "Invalid minimum volume"
ErrVolumeBelowMinimum == "Volume must be greater or equal to minimum volume"
ErrAtom == "submitOrderToAtom rejected"
ErrBuild == "buildOrderMapping rejected"
ErrIngress == "submitOrderFragments rejected"
ErrTransaction == "orderbook.openOrder rejected"

NOT_SUBMITTED == "NOT_SUBMITTED"

\* lines 27-40, apart from the nonce
PopulateOrderDefaults(o, unixSeconds) ==
    [o EXCEPT !.orderSettlement = IF @ # NoSettlement THEN @ ELSE RenEx,
              !.expiry = IF @ # Undefined THEN @ ELSE unixSeconds + 60 * 60 * 24,
              !.type = IF @ # "" THEN @ ELSE LIMIT]

\* lines 51, 57: the volume that is spent
Parity(o) == IF o.receiveToken < o.spendToken THEN SELL ELSE BUY
SpendVolume(o, priorityVolume) == IF Parity(o) = BUY THEN priorityVolume ELSE o.volume

\* a slip: the balance is not compared
InputErrorNoBalance(o, spendVolume, balance) ==
    IF o.price <= 0 THEN ErrInvalidPrice
    ELSE IF o.volume <= 0 THEN ErrInvalidVolume
    ELSE IF o.minimumVolume <= 0 THEN ErrInvalidMinimumVolume
    ELSE IF o.volume < o.minimumVolume THEN ErrVolumeBelowMinimum
    ELSE NoError

\* lines 68-87: the error of the first check that fails
InputError(o, spendVolume, balance) ==
    IF spendVolume > balance THEN ErrInsufficientBalance
    ELSE IF o.price <= 0 THEN ErrInvalidPrice
    ELSE IF o.volume <= 0 THEN ErrInvalidVolume
    ELSE IF o.minimumVolume <= 0 THEN ErrInvalidMinimumVolume
    ELSE IF o.volume < o.minimumVolume THEN ErrVolumeBelowMinimum
    ELSE NoError

\* a slip: nothing is sent to the Atomic Swapper
SubmitsToAtomNever(settlement) == FALSE

\* line 118
SubmitsToAtom(settlement) == settlement = RenExAtomic

\* lines 43-44: the clock and the defaults; the nonce is drawn next if absent
OpenEnter ==
    /\ pc = "open"
    /\ inputs' = PopulateOrderDefaults(inputs, env.now)
    /\ pc' = IF inputs.nonce = Undefined THEN "nonce" ELSE "defaults"
    /\ UNCHANGED <<env, effects, stored, returned, tasks, liveVars, fragVars, idVars,
                   registryVars, epoch, podVars, error, queried, callNo, prevPools,
                   prevEpoch, buildVars>>

\* lines 47-87: token details, volumes, the balance, and the five checks
OpenChecks ==
    /\ pc = "defaults"
    /\ LET failure == InputError(inputs, SpendVolume(inputs, env.priorityVolume),
                                 env.balance)
       IN  IF failure # NoError
           THEN pc' = "rejected" /\ error' = failure
           ELSE pc' = "hash" /\ UNCHANGED error
    /\ UNCHANGED <<sdkVars, liveVars, fragVars, idVars,
                   registryVars, epoch, podVars, queried, callNo, prevPools,
                   prevEpoch, buildVars>>

\* lines 89-116: the ingress order is built and hashed
OpenHash ==
    /\ pc = "hash"
    /\ orderId' = OrderIdOf([type |-> inputs.type,
                             orderSettlement |-> inputs.orderSettlement,
                             expiry |-> inputs.expiry,
                             nonce |-> inputs.nonce,
                             parity |-> Parity(inputs),
                             tokens |-> IF Parity(inputs) = BUY
                                        THEN <<"generateTokenPairing", inputs.spendToken,
                                               inputs.receiveToken>>
                                        ELSE <<"generateTokenPairing", inputs.receiveToken,
                                               inputs.spendToken>>,
                             price |-> <<"adjustDecimals", inputs.price, 0, 12>>,
                             volume |-> <<"adjustDecimals", inputs.volume, "decimals", 12>>,
                             minimumVolume |-> <<"adjustDecimals", inputs.minimumVolume, "decimals", 12>>])
    /\ pc' = "atom"
    /\ UNCHANGED <<sdkVars, liveVars, fragVars, firstOrder, firstId,
                   registryVars, epoch, podVars, error, queried, callNo, prevPools,
                   prevEpoch, buildVars>>

\* lines 118-121: atomic orders go to the Atomic Swapper, which accepts or not
OpenAtom ==
    /\ pc = "atom"
    /\ IF SubmitsToAtom(inputs.orderSettlement)
       THEN \E accepted \in BOOLEAN :
               IF accepted
               THEN /\ effects' = Append(effects, "atom")
                    /\ pc' = "build"
                    /\ UNCHANGED error
               ELSE /\ pc' = "rejected"
                    /\ error' = ErrAtom
                    /\ UNCHANGED effects
       ELSE /\ pc' = "build"
            /\ UNCHANGED <<effects, error>>
    /\ UNCHANGED <<inputs, env, stored, returned, tasks, liveVars, fragVars, idVars,
                   registryVars, epoch, podVars, queried, callNo, prevPools,
                   prevEpoch, buildVars>>

\* lines 125-128: ingress.buildOrderMapping returns the mapping or rejects
OpenBuild ==
    /\ pc = "build"
    /\ \E built \in BOOLEAN :
          IF built
          THEN pc' = "submit" /\ UNCHANGED error
          ELSE pc' = "rejected" /\ error' = ErrBuild
    /\ UNCHANGED <<sdkVars, liveVars, fragVars, idVars,
                   registryVars, epoch, podVars, queried, callNo, prevPools,
                   prevEpoch, buildVars>>

\* line 130: the fragments go to the ingress, which signs or rejects
OpenSubmit ==
    /\ pc = "submit"
    /\ \E signed \in BOOLEAN :
          IF signed
          THEN /\ effects' = Append(effects, "ingress")
               /\ pc' = "tx"
               /\ UNCHANGED error
          ELSE /\ pc' = "rejected"
               /\ error' = ErrIngress
               /\ UNCHANGED effects
    /\ UNCHANGED <<inputs, env, stored, returned, tasks, liveVars, fragVars, idVars,
                   registryVars, epoch, podVars, queried, callNo, prevPools,
                   prevEpoch, buildVars>>

\* lines 134-140: the orderbook transaction yields its hash or fails
OpenTransaction ==
    /\ pc = "tx"
    /\ \E hashed \in BOOLEAN :
          IF hashed
          THEN /\ effects' = Append(effects, "orderbook")
               /\ pc' = "store"
               /\ UNCHANGED error
          ELSE /\ pc' = "rejected"
               /\ error' = ErrTransaction
               /\ UNCHANGED effects
    /\ UNCHANGED <<inputs, env, stored, returned, tasks, liveVars, fragVars, idVars,
                   registryVars, epoch, podVars, queried, callNo, prevPools,
                   prevEpoch, buildVars>>

\* lines 142-158: the complete order is handed to storage and returned
OpenStore ==
    /\ pc = "store"
    /\ LET completeOrder == [orderInputs |-> inputs,
                             status |-> NOT_SUBMITTED,
                             id |-> orderId,
                             transactionHash |-> <<"txHash", orderId>>]
       IN  /\ stored' = completeOrder
           /\ returned' = completeOrder
    /\ effects' = Append(effects, "storage")
    /\ pc' = "opened"
    /\ UNCHANGED <<inputs, env, tasks, liveVars, fragVars, idVars,
                   registryVars, epoch, podVars, error, queried, callNo, prevPools,
                   prevEpoch, buildVars>>

\* ---- sdk.status and matchDetails (methods/settlementMethods.ts) ---------------
OPEN == "OPEN"
CONFIRMED == "CONFIRMED"
CANCELED == "CANCELED"
SETTLED == "SETTLED"
EXPIRED == "EXPIRED"
NoStatus == ""
Throws == "throws"
ErrOrderState == "orderState rejected"

\* sdk._storage.getOrder of an order that is not stored; absent match details
NoStoredOrder == <<>>
NoDetails == <<>>

\* lines 114-154: the match details of a settled order; the volumes of an
\* atomic order include the fees
OrderMatchDetails(storedOrder) ==
    <<"matchDetails",
      storedOrder # NoStoredOrder /\ storedOrder.orderInputs.orderSettlement = RenExAtomic>>

\* lines 41-43: the Swapper may not have the most recent status
SwapperStatus(answer) ==
    IF answer = OPEN \/ answer = NOT_SUBMITTED THEN CONFIRMED ELSE answer

\* lines 21-49 of settlementStatus, from the stored order that was read
SettlementStatusFrom(storedOrder) ==
    IF storedOrder = NoStoredOrder \/ storedOrder.orderInputs.orderSettlement = RenEx
    THEN SETTLED
    ELSE LET storedStatus == IF storedOrder.status = NoStatus THEN CONFIRMED
                             ELSE storedOrder.status
         IN  IF ~env.atomConnected THEN storedStatus
             ELSE IF env.swapper = Throws THEN storedStatus
             ELSE SwapperStatus(env.swapper)

\* a storage update that is started and not awaited: its getOrder is issued
StartUpdate(kind, value) ==
    Append(tasks, [kind |-> kind, at |-> "get", copy |-> NoStoredOrder, value |-> value])

\* lines 52-65, 76-78: the state of the order in the orderbook contract
StatusEnter ==
    /\ pc = "status"
    /\ IF env.orderbook = Throws
       THEN pc' = "rejected" /\ error' = ErrOrderState /\ UNCHANGED returned
       ELSE IF env.orderbook = CONFIRMED
       THEN pc' = "md.get" /\ UNCHANGED <<error, returned>>
       ELSE IF env.orderbook = OPEN
       THEN pc' = "expiry" /\ UNCHANGED <<error, returned>>
       ELSE pc' = "update" /\ returned' = env.orderbook /\ UNCHANGED error
    /\ UNCHANGED <<inputs, env, effects, stored, tasks, liveVars, fragVars, idVars,
                   registryVars, epoch, podVars, queried, callNo, prevPools,
                   prevEpoch, buildVars>>

\* lines 67-75: an open order that is stored and past its expiry is EXPIRED
StatusExpiry ==
    /\ pc = "expiry"
    /\ returned' = IF stored # NoStoredOrder /\ stored.orderInputs.expiry < env.now
                   THEN EXPIRED ELSE OPEN
    /\ pc' = "update"
    /\ UNCHANGED <<inputs, env, effects, stored, tasks, liveVars, fragVars, idVars,
                   registryVars, epoch, podVars, error, queried, callNo, prevPools,
                   prevEpoch, buildVars>>

\* matchDetails, lines 99-103: the stored order is read; stored details are returned
MatchDetailsGet ==
    /\ pc = "md.get"
    /\ IF stored # NoStoredOrder /\ stored.matchDetails # NoDetails
       THEN pc' = "ss.get" /\ UNCHANGED inputs
       ELSE pc' = "md.details" /\ inputs' = [inputs EXCEPT !.storedOrder = stored]
    /\ UNCHANGED <<env, effects, stored, returned, tasks, liveVars, fragVars, idVars,
                   registryVars, epoch, podVars, error, queried, callNo, prevPools,
                   prevEpoch, buildVars>>

\* matchDetails, lines 105-164, and lines 15-19 of settlementStatus: the
\* settlement contract is asked; an order that is not settled makes
\* matchDetails throw and the status CONFIRMED; otherwise the storage update
\* of the details is started
MatchDetailsFetch ==
    /\ pc = "md.details"
    /\ IF env.details # SETTLED
       THEN /\ returned' = CONFIRMED
            /\ pc' = "update"
            /\ UNCHANGED tasks
       ELSE /\ tasks' = StartUpdate("matchDetails", OrderMatchDetails(inputs.storedOrder))
            /\ pc' = "ss.get"
            /\ UNCHANGED returned
    /\ UNCHANGED <<inputs, env, effects, stored, liveVars, fragVars, idVars,
                   registryVars, epoch, podVars, error, queried, callNo, prevPools,
                   prevEpoch, buildVars>>

\* settlementStatus, lines 21-49: the stored order is read, then the Swapper
SettlementStatusGet ==
    /\ pc = "ss.get"
    /\ returned' = SettlementStatusFrom(stored)
    /\ pc' = "update"
    /\ UNCHANGED <<inputs, env, effects, stored, tasks, liveVars, fragVars, idVars,
                   registryVars, epoch, podVars, error, queried, callNo, prevPools,
                   prevEpoch, buildVars>>

\* lines 80-88: the storage update of the status is started; status returns
StatusReturn ==
    /\ pc = "update"
    /\ tasks' = StartUpdate("status", returned)
    /\ pc' = "statusDone"
    /\ UNCHANGED <<inputs, env, effects, stored, returned, liveVars, fragVars, idVars,
                   registryVars, epoch, podVars, error, queried, callNo, prevPools,
                   prevEpoch, buildVars>>

\* lines 83-84 and 159-160: the order that was read, with one field set
TaskWrite(task) ==
    IF task.kind = "status" THEN [task.copy EXCEPT !.status = task.value]
    ELSE [task.copy EXCEPT !.matchDetails = task.value]

\* lines 81-82 and 157-158: getOrder of a storage update answers
TaskGet(t) ==
    /\ t \in 1..Len(tasks)
    /\ tasks[t].at = "get"
    /\ tasks' = [tasks EXCEPT ![t] = IF stored = NoStoredOrder
                                      THEN [@ EXCEPT !.at = "done"]
                                      ELSE [@ EXCEPT !.at = "set", !.copy = stored]]
    /\ UNCHANGED <<inputs, env, effects, stored, returned, liveVars, fragVars, idVars,
                   registryVars, epoch, pc, podVars, error, queried, callNo, prevPools,
                   prevEpoch, buildVars>>

\* lines 84 and 160: setOrder of a storage update is carried out
TaskSet(t) ==
    /\ t \in 1..Len(tasks)
    /\ tasks[t].at = "set"
    /\ stored' = TaskWrite(tasks[t])
    /\ tasks' = [tasks EXCEPT ![t] = [@ EXCEPT !.at = "done"]]
    /\ UNCHANGED <<inputs, env, effects, returned, liveVars, fragVars, idVars,
                   registryVars, epoch, pc, podVars, error, queried, callNo, prevPools,
                   prevEpoch, buildVars>>

\* ---- fetchOrderStatus (unnamed/part_001) ----------------------------------------
FAILED_TO_SETTLE == "FAILED_TO_SETTLE"

\* lines 61-66 and 68-73: a block number that cannot be read stays 0
BlockNumber(answer) == IF answer.throws THEN 0 ELSE answer.value

\* a slip: any order mined before the current block counts as timed out
TimedOutAnyAge(currentBlockNumber, blockNumber) ==
    blockNumber > 0 /\ currentBlockNumber - blockNumber > 0

\* line 74
TimedOut(currentBlockNumber, blockNumber) ==
    blockNumber > 0 /\ currentBlockNumber - blockNumber > 300

\* lines 14-37 of settlementStatus, from the stored order that was read
FetchSettlementStatus(storedOrder) ==
    LET defaultStatus ==
            IF storedOrder = NoStoredOrder \/ storedOrder.status = NoStatus
            THEN CONFIRMED ELSE storedOrder.status
        askSwapper ==
            /\ storedOrder # NoStoredOrder
            /\ storedOrder.computedOrderDetails.orderSettlement = RenExAtomic
            /\ env.atomConnected
        matched ==
            \/ storedOrder # NoStoredOrder /\ storedOrder.matchDetails # NoDetails
            \/ env.details = SETTLED
    IN  IF askSwapper /\ env.swapper # Throws THEN env.swapper
        ELSE IF matched THEN SETTLED
        ELSE defaultStatus

\* lines 39-52, 79-81: the state of the order in the orderbook contract
FetchEnter ==
    /\ pc = "fetch"
    /\ IF env.orderbook = Throws
       THEN pc' = "rejected" /\ error' = ErrOrderState /\ UNCHANGED returned
       ELSE IF env.orderbook = CONFIRMED
       THEN pc' = "fetch.settlement" /\ UNCHANGED <<error, returned>>
       ELSE pc' = "fetch.update" /\ returned' = env.orderbook /\ UNCHANGED error
    /\ UNCHANGED <<inputs, env, effects, stored, tasks, liveVars, fragVars, idVars,
                   registryVars, epoch, podVars, queried, callNo, prevPools,
                   prevEpoch, buildVars>>

\* line 53 with settlementStatus, lines 14-37, and matchDetails, lines 101-164:
\* match details that had to be fetched are written to storage without awaiting
FetchSettlement ==
    /\ pc = "fetch.settlement"
    /\ inputs' = [inputs EXCEPT !.orderStatus = FetchSettlementStatus(stored)]
    /\ tasks' = IF /\ inputs'.orderStatus = SETTLED
                   /\ ~(stored # NoStoredOrder /\ stored.matchDetails # NoDetails)
                   /\ env.details = SETTLED
                THEN StartUpdate("matchDetails", <<"matchDetails", FALSE>>)
                ELSE tasks
    /\ pc' = "fetch.blocks"
    /\ UNCHANGED <<env, effects, stored, returned, liveVars, fragVars, idVars,
                   registryVars, epoch, podVars, error, queried, callNo, prevPools,
                   prevEpoch, buildVars>>

\* lines 59-78: a RenEx order still CONFIRMED more than 300 blocks after it was
\* mined has failed to settle
FetchBlocks ==
    /\ pc = "fetch.blocks"
    /\ LET currentBlockNumber == BlockNumber(env.currentBlock)
           blockNumber == IF currentBlockNumber > 0 THEN BlockNumber(env.orderBlock) ELSE 0
       IN  returned' =
               IF /\ stored # NoStoredOrder
                  /\ stored.computedOrderDetails.orderSettlement = RenEx
                  /\ inputs.orderStatus = CONFIRMED
                  /\ currentBlockNumber > 0
                  /\ TimedOut(currentBlockNumber, blockNumber)
               THEN FAILED_TO_SETTLE
               ELSE inputs.orderStatus
    /\ pc' = "fetch.update"
    /\ UNCHANGED <<inputs, env, effects, stored, tasks, liveVars, fragVars, idVars,
                   registryVars, epoch, podVars, error, queried, callNo, prevPools,
                   prevEpoch, buildVars>>

\* lines 83-91: the storage update of the status is started; the status is returned
FetchReturn ==
    /\ pc = "fetch.update"
    /\ tasks' = StartUpdate("status", returned)
    /\ pc' = "fetched"
    /\ UNCHANGED <<inputs, env, effects, stored, returned, liveVars, fragVars, idVars,
                   registryVars, epoch, podVars, error, queried, callNo, prevPools,
                   prevEpoch, buildVars>>

\* ---- getOrders (methods/orderbookMethods.ts) and listOrders (unnamed/part_002) ---
ErrUnsupportedFilterStatus == "unsupported filter status"
NoAddress == ""

\* String.prototype.toLowerCase on the strings that occur
ToLowerCase(str) ==
    CASE str = "0xAB" -> "0xab"
      [] str = "0xCD" -> "0xcd"
      [] str = NOT_SUBMITTED -> "not_submitted"
      [] str = OPEN -> "open"
      [] str = CONFIRMED -> "confirmed"
      [] str = CANCELED -> "canceled"
      [] str = SETTLED -> "settled"
      [] OTHER -> str

\* lines 168-171 of getOrders, lines 122-125 of listOrders
UnsupportedFilter(filter) ==
    filter.status # NoStatus /\ filter.status \notin {NOT_SUBMITTED, OPEN, CONFIRMED}

\* orderbookMethods.ts lines 175-182: the two filters of getOrders
GetOrdersFilter(orders, filter) ==
    LET byStatus == IF filter.status # NoStatus
                    THEN SelectSeq(orders, LAMBDA o : o[2] = filter.status)
                    ELSE orders
    IN  IF filter.address # NoAddress
        THEN SelectSeq(byStatus,
                       LAMBDA o : ToLowerCase(o[3]) = ToLowerCase(filter.address))
        ELSE byStatus

\* part_002 lines 131-137: the two filters of listOrders
ListOrdersFilter(orders, filter) ==
    LET byAddress == IF filter.address # NoAddress
                     THEN SelectSeq(orders, LAMBDA o : filter.status = o[2])
                     ELSE orders
    IN  IF filter.status # NoStatus
        THEN SelectSeq(byAddress,
                       LAMBDA o : ToLowerCase(o[3]) = ToLowerCase(filter.status))
        ELSE byAddress

\* orderbookMethods.ts lines 167-189
GetOrders ==
    /\ pc = "list"
    /\ inputs.call = "getOrders"
    /\ IF UnsupportedFilter(inputs.filter)
       THEN /\ pc' = "rejected"
            /\ error' = ErrUnsupportedFilterStatus
            /\ UNCHANGED returned
       ELSE /\ pc' = "listed"
            /\ returned' = LET kept == GetOrdersFilter(env.orders, inputs.filter)
                           IN  [n \in 1..Len(kept) |->
                                    [id |-> kept[n][1], status |-> kept[n][2],
                                     trader |-> kept[n][3]]]
            /\ UNCHANGED error
    /\ UNCHANGED <<inputs, env, effects, stored, tasks, liveVars, fragVars, idVars,
                   registryVars, epoch, podVars, queried, callNo, prevPools,
                   prevEpoch, buildVars>>

\* part_002 lines 121-144
ListOrders ==
    /\ pc = "list"
    /\ inputs.call = "listOrders"
    /\ IF UnsupportedFilter(inputs.filter)
       THEN /\ pc' = "rejected"
            /\ error' = ErrUnsupportedFilterStatus
            /\ UNCHANGED returned
       ELSE /\ pc' = "listed"
            /\ returned' = LET kept == ListOrdersFilter(env.orders, inputs.filter)
                           IN  [n \in 1..Len(kept) |->
                                    [orderID |-> kept[n][1], status |-> kept[n][2],
                                     trader |-> kept[n][3]]]
            /\ UNCHANGED error
    /\ UNCHANGED <<inputs, env, effects, stored, tasks, liveVars, fragVars, idVars,
                   registryVars, epoch, podVars, queried, callNo, prevPools,
                   prevEpoch, buildVars>>

\* ---- EncodedData (lib/encodedData.ts) ---------------------------------------
\* text is a sequence of characters, a Buffer a sequence of bytes
HEX == "hex"
BASE64 == "base64"
BUFFER == "buffer"
ErrInvalidHex == "invalid hex"

HexDigits ==
    <<"0", "1", "2", "3", "4", "5", "6", "7", "8", "9", "a", "b", "c", "d", "e", "f">>
UpperHexDigits ==
    <<"0", "1", "2", "3", "4", "5", "6", "7", "8", "9", "A", "B", "C", "D", "E", "F">>
Base64Chars ==
    <<"A", "B", "C", "D", "E", "F", "G", "H", "I", "J", "K", "L", "M", "N", "O", "P",
      "Q", "R", "S", "T", "U", "V", "W", "X", "Y", "Z", "a", "b", "c", "d", "e", "f",
      "g", "h", "i", "j", "k", "l", "m", "n", "o", "p", "q", "r", "s", "t", "u", "v",
      "w", "x", "y", "z", "0", "1", "2", "3", "4", "5", "6", "7", "8", "9", "+", "/">>

IsHexDigit(ch) ==
    \E n \in 1..16 : HexDigits[n] = ch \/ UpperHexDigits[n] = ch
HexValue(ch) ==
    (CHOOSE n \in 1..16 : HexDigits[n] = ch \/ UpperHexDigits[n] = ch) - 1
Base64Value(ch) ==
    (CHOOSE n \in 1..64 : Base64Chars[n] = ch) - 1

\* Buffer.prototype.toString("hex")
RECURSIVE BufferToHex(_)
BufferToHex(buffer) ==
    IF buffer = <<>> THEN <<>>
    ELSE <<HexDigits[(Head(buffer) \div 16) + 1], HexDigits[(Head(buffer) % 16) + 1]>>
             \o BufferToHex(Tail(buffer))

\* Buffer.from(text, "hex"): whole pairs of hex digits, up to the first that is not
RECURSIVE BufferFromHex(_)
BufferFromHex(text) ==
    IF Len(text) < 2 \/ ~IsHexDigit(text[1]) \/ ~IsHexDigit(text[2]) THEN <<>>
    ELSE <<HexValue(text[1]) * 16 + HexValue(text[2])>>
             \o BufferFromHex(SubSeq(text, 3, Len(text)))

\* Buffer.prototype.toString("base64")
RECURSIVE BufferToBase64(_)
BufferToBase64(buffer) ==
    IF buffer = <<>> THEN <<>>
    ELSE IF Len(buffer) = 1
    THEN <<Base64Chars[(buffer[1] \div 4) + 1],
           Base64Chars[((buffer[1] % 4) * 16) + 1], "=", "=">>
    ELSE IF Len(buffer) = 2
    THEN <<Base64Chars[(buffer[1] \div 4) + 1],
           Base64Chars[((buffer[1] % 4) * 16 + buffer[2] \div 16) + 1],
           Base64Chars[((buffer[2] % 16) * 4) + 1], "=">>
    ELSE <<Base64Chars[(buffer[1] \div 4) + 1],
           Base64Chars[((buffer[1] % 4) * 16 + buffer[2] \div 16) + 1],
           Base64Chars[((buffer[2] % 16) * 4 + buffer[3] \div 64) + 1],
           Base64Chars[(buffer[3] % 64) + 1]>>
             \o BufferToBase64(SubSeq(buffer, 4, Len(buffer)))

\* Buffer.from(text, "base64") of padded base64 text
RECURSIVE BufferFromBase64(_)
BufferFromBase64(text) ==
    IF Len(text) < 4 THEN <<>>
    ELSE LET v1 == Base64Value(text[1])
             v2 == Base64Value(text[2])
         IN  IF text[3] = "=" THEN <<v1 * 4 + v2 \div 16>>
             ELSE LET v3 == Base64Value(text[3])
                  IN  IF text[4] = "="
                      THEN <<v1 * 4 + v2 \div 16, (v2 % 16) * 16 + v3 \div 4>>
                      ELSE <<v1 * 4 + v2 \div 16, (v2 % 16) * 16 + v3 \div 4,
                             (v3 % 4) * 64 + Base64Value(text[4])>>
                               \o BufferFromBase64(SubSeq(text, 5, Len(text)))

\* a slip: the prefix is kept
StripPrefixNever(text) == text

\* lines 64-66
StripPrefix(text) ==
    IF Len(text) >= 2 /\ text[1] = "0" /\ text[2] = "x"
    THEN SubSeq(text, 3, Len(text)) ELSE text

\* lines 59-80: the value of a hex parameter
NormaliseHex(text) ==
    LET stripped == StripPrefix(text)
        filled == IF stripped = <<>> THEN <<"0", "0">> ELSE stripped
    IN  IF Len(filled) % 2 = 1 THEN <<"0">> \o filled ELSE filled

\* lines 18-83, for a parameter given with its encoding: text with HEX or
\* BASE64, a Buffer with BUFFER
Parse(value, encoding) ==
    IF encoding = HEX
    THEN LET text == NormaliseHex(value)
         IN  IF \A n \in 1..Len(text) : IsHexDigit(text[n])
             THEN [value |-> text, encoding |-> HEX, error |-> ""]
             ELSE [value |-> value, encoding |-> HEX, error |-> ErrInvalidHex]
    ELSE [value |-> value, encoding |-> encoding, error |-> ""]

\* lines 94-105
ToHex(data, prefix) ==
    CASE data.encoding = HEX -> prefix \o data.value
      [] data.encoding = BASE64 -> prefix \o BufferToHex(BufferFromBase64(data.value))
      [] data.encoding = BUFFER -> prefix \o BufferToHex(data.value)

\* lines 107-118, on the characters of the text
EncodedToBase64(data) ==
    CASE data.encoding = HEX -> BufferToBase64(BufferFromHex(data.value))
      [] data.encoding = BASE64 -> data.value
      [] data.encoding = BUFFER -> BufferToBase64(data.value)

\* lines 125-136
ToBuffer(data) ==
    CASE data.encoding = HEX -> BufferFromHex(data.value)
      [] data.encoding = BASE64 -> BufferFromBase64(data.value)
      [] data.encoding = BUFFER -> data.value

\* lines 86-92: new EncodedData(buffer, Encodings.BUFFER)
EncodedBuild ==
    /\ pc = "encode"
    /\ env' = Parse(inputs.buffer, BUFFER)
    /\ pc' = "built"
    /\ UNCHANGED <<inputs, effects, stored, returned, tasks, liveVars, fragVars, idVars,
                   registryVars, epoch, podVars, error, queried, callNo, prevPools,
                   prevEpoch, buildVars>>

\* lines 94-118: toHex with the chosen prefix, or toBase64
EncodedToText ==
    /\ pc = "built"
    /\ effects' = IF inputs.encoding = HEX THEN ToHex(env, inputs.prefix)
                  ELSE EncodedToBase64(env)
    /\ pc' = "text"
    /\ UNCHANGED <<inputs, env, stored, returned, tasks, liveVars, fragVars, idVars,
                   registryVars, epoch, podVars, error, queried, callNo, prevPools,
                   prevEpoch, buildVars>>

\* lines 86-92 with parse: new EncodedData(text, encoding)
EncodedParse ==
    /\ pc = "text"
    /\ LET data == Parse(effects, inputs.encoding)
       IN  IF data.error # ""
           THEN pc' = "rejected" /\ error' = data.error /\ UNCHANGED env
           ELSE pc' = "parsed" /\ env' = data /\ UNCHANGED error
    /\ UNCHANGED <<inputs, effects, stored, returned, tasks, liveVars, fragVars, idVars,
                   registryVars, epoch, podVars, queried, callNo, prevPools,
                   prevEpoch, buildVars>>

\* lines 125-136
EncodedToBuffer ==
    /\ pc = "parsed"
    /\ returned' = ToBuffer(env)
    /\ pc' = "decoded"
    /\ UNCHANGED <<inputs, env, effects, stored, tasks, liveVars, fragVars, idVars,
                   registryVars, epoch, podVars, error, queried, callNo, prevPools,
                   prevEpoch, buildVars>>

\* ---- the specification --------------------------------------------------
Init ==
    /\ darknodes \in SeqsUpTo(Addrs, MaxNodes)
    /\ registered \in [Addrs -> BOOLEAN]
    /\ minimumPodSize \in 0..MaxPodSize
    /\ epoch \in 0..MaxEpoch
    /\ pc = "getPods"
    /\ x = 0
    /\ i = 0
    /\ isRegistered = FALSE
    /\ positionInOcean = <<>>
    /\ pools = <<>>
    /\ numberOfPods = 0
    /\ error = NoError
    /\ queried = FALSE
    /\ callNo = 1
    /\ prevPools = <<>>
    /\ prevEpoch = -1
    /\ order = NoOrder
    /\ nextPool = 0
    /\ podN = <<>>
    /\ podK = <<>>
    /\ shares = <<>>
    /\ orderId = NoId
    /\ firstOrder = NoOrder
    /\ firstId = NoId
    /\ publicKeys = [a \in Addrs |-> KeyHex]
    /\ poolI = <<>>
    /\ poolFragments = <<>>
    /\ poolStatus = <<>>
    /\ completed = <<>>
    /\ reduced = 0
    /\ result = EmptyMap
    /\ startRegistered = registered
    /\ inputs = <<>>
    /\ env = <<>>
    /\ effects = <<>>
    /\ stored = <<>>
    /\ returned = <<>>
    /\ tasks = <<>>

\* getPods, called once and then once more
Next ==
    \/ GetPodsEnter
    \/ OuterLoop
    \/ Probe
    \/ Assign
    \/ ComputeIds
    \/ SecondCall

Spec == Init /\ [][Next]_vars

\* ---- the builder: lists of up to MaxBuildNodes registered darknodes; one
\* darknode of the list has any of the answers to its key lookup ------------
BuildEpochs == {0, 1}

InitBuild ==
    /\ \E total \in 1..MaxBuildNodes : darknodes = [j \in 1..total |-> j]
    /\ registered = [a \in 1..MaxBuildNodes |-> TRUE]
    /\ minimumPodSize \in 1..MaxPodSize
    /\ epoch \in BuildEpochs
    /\ pc = "getPods"
    /\ x = 0
    /\ i = 0
    /\ isRegistered = FALSE
    /\ positionInOcean = <<>>
    /\ pools = <<>>
    /\ numberOfPods = 0
    /\ error = NoError
    /\ queried = FALSE
    /\ callNo = 1
    /\ prevPools = <<>>
    /\ prevEpoch = -1
    /\ order = NoOrder
    /\ nextPool = 0
    /\ podN = <<>>
    /\ podK = <<>>
    /\ shares = <<>>
    /\ orderId = NoId
    /\ firstOrder = NoOrder
    /\ firstId = NoId
    /\ \E odd \in DOMAIN darknodes : \E answer \in KeyAnswers :
          publicKeys = [a \in DOMAIN darknodes |-> IF a = odd THEN answer ELSE KeyHex]
    /\ poolI = <<>>
    /\ poolFragments = <<>>
    /\ poolStatus = <<>>
    /\ completed = <<>>
    /\ reduced = 0
    /\ result = EmptyMap
    /\ startRegistered = registered
    /\ inputs = <<>>
    /\ env = <<>>
    /\ effects = <<>>
    /\ stored = <<>>
    /\ returned = <<>>
    /\ tasks = <<>>

NextBuild ==
    \/ GetPodsEnter
    \/ OuterLoop
    \/ Probe
    \/ Assign
    \/ ComputeIds
    \/ BuildEnter
    \/ PoolParams
    \/ PoolSplit
    \/ MapDone
    \/ \E p \in 1..MaxBuildNodes : PoolStep(p)
    \/ Merge
    \/ MergeRejected
    \/ BuildReturn

SpecBuild == InitBuild /\ [][NextBuild]_vars

\* ---- pod sizes: lists of up to MaxPodMembers registered darknodes --------
InitSizes ==
    /\ \E total \in 1..MaxPodMembers : darknodes = [j \in 1..total |-> j]
    /\ registered = [a \in 1..MaxPodMembers |-> TRUE]
    /\ minimumPodSize \in 1..MaxPodMembers
    /\ epoch \in 0..MaxEpoch
    /\ pc = "getPods"
    /\ x = 0
    /\ i = 0
    /\ isRegistered = FALSE
    /\ positionInOcean = <<>>
    /\ pools = <<>>
    /\ numberOfPods = 0
    /\ error = NoError
    /\ queried = FALSE
    /\ callNo = 1
    /\ prevPools = <<>>
    /\ prevEpoch = -1
    /\ order = NoOrder
    /\ nextPool = 0
    /\ podN = <<>>
    /\ podK = <<>>
    /\ shares = <<>>
    /\ orderId = NoId
    /\ firstOrder = NoOrder
    /\ firstId = NoId
    /\ publicKeys = [a \in 1..MaxPodMembers |-> KeyHex]
    /\ poolI = <<>>
    /\ poolFragments = <<>>
    /\ poolStatus = <<>>
    /\ completed = <<>>
    /\ reduced = 0
    /\ result = EmptyMap
    /\ startRegistered = registered
    /\ inputs = <<>>
    /\ env = <<>>
    /\ effects = <<>>
    /\ stored = <<>>
    /\ returned = <<>>
    /\ tasks = <<>>

NextSizes ==
    \/ GetPodsEnter
    \/ OuterLoop
    \/ Probe
    \/ Assign
    \/ ComputeIds
    \/ BuildEnter
    \/ PoolParams

SpecSizes == InitSizes /\ [][NextSizes]_vars

\* ---- a registry that changes while getPods runs -----------------------------
InitLive ==
    /\ \E total \in 1..MaxNodes : darknodes = [j \in 1..total |-> j]
    /\ registered \in [DOMAIN darknodes -> BOOLEAN]
    /\ minimumPodSize \in 1..MaxPodSize
    /\ epoch \in 0..MaxEpoch
    /\ pc = "getPods"
    /\ x = 0
    /\ i = 0
    /\ isRegistered = FALSE
    /\ positionInOcean = <<>>
    /\ pools = <<>>
    /\ numberOfPods = 0
    /\ error = NoError
    /\ queried = FALSE
    /\ callNo = 1
    /\ prevPools = <<>>
    /\ prevEpoch = -1
    /\ order = NoOrder
    /\ nextPool = 0
    /\ podN = <<>>
    /\ podK = <<>>
    /\ shares = <<>>
    /\ orderId = NoId
    /\ firstOrder = NoOrder
    /\ firstId = NoId
    /\ publicKeys = [a \in DOMAIN darknodes |-> KeyHex]
    /\ poolI = <<>>
    /\ poolFragments = <<>>
    /\ poolStatus = <<>>
    /\ completed = <<>>
    /\ reduced = 0
    /\ result = EmptyMap
    /\ startRegistered = registered
    /\ inputs = <<>>
    /\ env = <<>>
    /\ effects = <<>>
    /\ stored = <<>>
    /\ returned = <<>>
    /\ tasks = <<>>

NextLive ==
    \/ GetPodsEnter
    \/ OuterLoop
    \/ Probe
    \/ Assign
    \/ ComputeIds
    \/ RegistryChange

SpecLive == InitLive /\ [][NextLive]_vars

\* ---- orders: every combination of values at the bounds of verifyOrder ----
BoundarySamples(low, high) == {low - 1, low, high, high + 1}

OrderSamples ==
    {[OrderWithPrice(pc1) EXCEPT !["price.q"] = pq, !["volume.c"] = vc,
                                 !["volume.q"] = vq, !["minimumVolume.c"] = mc,
                                 !["minimumVolume.q"] = mq] :
        pc1 \in BoundarySamples(0, 1999), pq \in BoundarySamples(0, 52),
        vc \in BoundarySamples(0, 49), vq \in BoundarySamples(0, 52),
        mc \in BoundarySamples(0, 49), mq \in BoundarySamples(0, 52)}

InitOrder ==
    /\ darknodes = <<>>
    /\ registered = [a \in Addrs |-> TRUE]
    /\ minimumPodSize = 1
    /\ epoch = 0
    /\ pc = "order"
    /\ x = 0
    /\ i = 0
    /\ isRegistered = FALSE
    /\ positionInOcean = <<>>
    /\ pools = <<>>
    /\ numberOfPods = 0
    /\ error = NoError
    /\ queried = FALSE
    /\ callNo = 1
    /\ prevPools = <<>>
    /\ prevEpoch = -1
    /\ order \in OrderSamples
    /\ nextPool = 0
    /\ podN = <<>>
    /\ podK = <<>>
    /\ shares = <<>>
    /\ orderId = NoId
    /\ firstOrder = NoOrder
    /\ firstId = NoId
    /\ publicKeys = [a \in Addrs |-> KeyHex]
    /\ poolI = <<>>
    /\ poolFragments = <<>>
    /\ poolStatus = <<>>
    /\ completed = <<>>
    /\ reduced = 0
    /\ result = EmptyMap
    /\ startRegistered = registered
    /\ inputs = <<>>
    /\ env = <<>>
    /\ effects = <<>>
    /\ stored = <<>>
    /\ returned = <<>>
    /\ tasks = <<>>

NextOrderSpec ==
    \/ OpenOrder
    \/ GetOrderIDCall
    \/ NextOrder

SpecOrder == InitOrder /\ [][NextOrderSpec]_vars

\* ---- the SDK methods: the ingress variables at rest --------------------------
IngressIdle ==
    /\ darknodes = <<>>
    /\ registered = [a \in Addrs |-> TRUE]
    /\ minimumPodSize = 1
    /\ epoch = 0
    /\ x = 0
    /\ i = 0
    /\ isRegistered = FALSE
    /\ positionInOcean = <<>>
    /\ pools = <<>>
    /\ numberOfPods = 0
    /\ error = NoError
    /\ queried = FALSE
    /\ callNo = 1
    /\ prevPools = <<>>
    /\ prevEpoch = -1
    /\ order = NoOrder
    /\ nextPool = 0
    /\ podN = <<>>
    /\ podK = <<>>
    /\ shares = <<>>
    /\ orderId = NoId
    /\ firstOrder = NoOrder
    /\ firstId = NoId
    /\ publicKeys = [a \in Addrs |-> KeyHex]
    /\ poolI = <<>>
    /\ poolFragments = <<>>
    /\ poolStatus = <<>>
    /\ completed = <<>>
    /\ reduced = 0
    /\ result = EmptyMap
    /\ startRegistered = registered

\* ---- sdk.verifyOrder on order objects with and without id, nonce, expiry ----
\* the order objects without an id
VerifyObjects ==
    [id : {NoId}, nonce : {Undefined, 3, 4}, expiry : {Undefined, 1000},
     price : {1, 2}, volume : {5}, minimumVolume : {5},
     buyToken : {1, 2}, sellToken : {1, 2}, orderSettlement : {NoSettlement, RenEx, RenExAtomic}]

VerifyDecimals == {8, 18}

\* the ids a caller supplies: none, or the id of some order object
SuppliedIds ==
    {NoId} \cup {OrderIdOf(IngressOrderOf(o, 8)) :
                    o \in {v \in VerifyObjects : /\ v.nonce = 3 /\ v.expiry = 1000
                                                 /\ v.buyToken = 1 /\ v.sellToken = 2
                                                 /\ v.orderSettlement = RenEx}}

InitVerify ==
    /\ IngressIdle
    /\ pc = "verify"
    /\ \E o \in VerifyObjects : \E id \in SuppliedIds :
          /\ o.buyToken # o.sellToken
          /\ inputs = [o EXCEPT !.id = id]
    /\ \E d \in VerifyDecimals : env = [decimals |-> d, now |-> 500, supplied |-> inputs.id]
    /\ effects = <<>>
    /\ stored = <<>>
    /\ returned = <<>>
    /\ tasks = <<>>

NextVerify ==
    \/ SdkVerifyEnter
    \/ RandomNonce
    \/ SdkVerifyReturn

SpecVerify == InitVerify /\ [][NextVerify]_vars

\* ---- sdk.openOrder on order inputs at and beyond the input checks ------------
OpenInputs ==
    [spendToken : {1, 2}, receiveToken : {1, 2}, price : {0, 2}, volume : {0, 5},
     minimumVolume : {0, 5, 6}, orderSettlement : {NoSettlement, RenEx, RenExAtomic},
     nonce : {Undefined, 3, PRIME}, expiry : {Undefined, 1000}, type : {""}]

InitOpen ==
    /\ IngressIdle
    /\ pc = "open"
    /\ \E o \in OpenInputs : o.spendToken # o.receiveToken /\ inputs = o
    /\ \E balance \in {4, 10} : \E priorityVolume \in {3, 20} :
          env = [now |-> 500, balance |-> balance, priorityVolume |-> priorityVolume]
    /\ effects = <<>>
    /\ stored = <<>>
    /\ returned = <<>>
    /\ tasks = <<>>

NextOpen ==
    \/ OpenEnter
    \/ RandomNonce
    \/ OpenChecks
    \/ OpenHash
    \/ OpenAtom
    \/ OpenBuild
    \/ OpenSubmit
    \/ OpenTransaction
    \/ OpenStore

SpecOpen == InitOpen /\ [][NextOpen]_vars

\* ---- sdk.status on every stored order and every answer of the contracts -----
StoredOrders ==
    {NoStoredOrder} \cup
    [orderInputs : [orderSettlement : {RenEx, RenExAtomic}, expiry : {100, 1000}],
     status : {NoStatus, NOT_SUBMITTED, OPEN, CONFIRMED, SETTLED},
     matchDetails : {NoDetails, <<"matchDetails", FALSE>>}]

StatusAnswers ==
    [orderbook : {OPEN, CONFIRMED, CANCELED, Throws},
     atomConnected : BOOLEAN,
     swapper : {NOT_SUBMITTED, OPEN, CONFIRMED, SETTLED, Throws},
     details : {SETTLED, OPEN, Throws},
     now : {500}]

InitStatus ==
    /\ IngressIdle
    /\ pc = "status"
    /\ inputs = [orderID |-> "id", storedOrder |-> NoStoredOrder]
    /\ env \in StatusAnswers
    /\ effects = <<>>
    /\ stored \in StoredOrders
    /\ returned = NoStatus
    /\ tasks = <<>>

NextStatus ==
    \/ StatusEnter
    \/ StatusExpiry
    \/ MatchDetailsGet
    \/ MatchDetailsFetch
    \/ SettlementStatusGet
    \/ StatusReturn
    \/ \E t \in 1..2 : TaskGet(t)
    \/ \E t \in 1..2 : TaskSet(t)

SpecStatus == InitStatus /\ [][NextStatus]_vars

\* ---- fetchOrderStatus on every stored order and every answer ----------------
FetchStoredOrders ==
    {NoStoredOrder} \cup
    [computedOrderDetails : [orderSettlement : {RenEx, RenExAtomic}],
     status : {NoStatus, OPEN, CONFIRMED, FAILED_TO_SETTLE},
     matchDetails : {NoDetails, <<"matchDetails", FALSE>>}]

BlockAnswers ==
    [throws : {TRUE}, value : {0}] \cup [throws : {FALSE}, value : {0, 600, 700, 1000}]

FetchAnswers ==
    [orderbook : {OPEN, CONFIRMED, CANCELED, Throws},
     atomConnected : BOOLEAN,
     swapper : {CONFIRMED, SETTLED, FAILED_TO_SETTLE, Throws},
     details : {SETTLED, Throws},
     currentBlock : {b \in BlockAnswers : b.value \in {0, 1000}},
     orderBlock : {b \in BlockAnswers : b.value # 1000}]

InitFetch ==
    /\ IngressIdle
    /\ pc = "fetch"
    /\ inputs = [orderID |-> "id", orderStatus |-> NoStatus]
    /\ env \in FetchAnswers
    /\ effects = <<>>
    /\ stored \in FetchStoredOrders
    /\ returned = NoStatus
    /\ tasks = <<>>

NextFetch ==
    \/ FetchEnter
    \/ FetchSettlement
    \/ FetchBlocks
    \/ FetchReturn
    \/ \E t \in 1..2 : TaskGet(t)
    \/ \E t \in 1..2 : TaskSet(t)

SpecFetch == InitFetch /\ [][NextFetch]_vars

\* ---- the listing operations on every filter and short orderbook ---------------
ListedOrders ==
    LET entry(n) == {<<n>> \o rest : rest \in {OPEN, CONFIRMED, CANCELED} \X {"0xab", "0xAB", "0xcd"}}
    IN  {<<>>} \cup {<<a>> : a \in entry(1)}
               \cup {<<a, b>> : a \in entry(1), b \in entry(2)}

ListFilters ==
    [status : {NoStatus, OPEN, CONFIRMED, SETTLED},
     address : {NoAddress, "0xAB", "0xcd"}]

InitList ==
    /\ IngressIdle
    /\ pc = "list"
    /\ inputs \in [call : {"getOrders", "listOrders"}, filter : ListFilters]
    /\ env \in [orders : ListedOrders]
    /\ effects = <<>>
    /\ stored = <<>>
    /\ returned = <<>>
    /\ tasks = <<>>

NextList ==
    \/ GetOrders
    \/ ListOrders

SpecList == InitList /\ [][NextList]_vars

\* ---- EncodedData on every short byte string -----------------------------------
ByteValues == {0, 1, 171, 255}

Buffers == UNION {[1..n -> ByteValues] : n \in 0..MaxBytes}

InitEncoded ==
    /\ IngressIdle
    /\ pc = "encode"
    /\ inputs \in [buffer : Buffers, encoding : {HEX, BASE64}, prefix : {<<"0", "x">>, <<>>}]
    /\ env = <<>>
    /\ effects = <<>>
    /\ stored = <<>>
    /\ returned = <<>>
    /\ tasks = <<>>

NextEncoded ==
    \/ EncodedBuild
    \/ EncodedToText
    \/ EncodedParse
    \/ EncodedToBuffer

SpecEncoded == InitEncoded /\ [][NextEncoded]_vars

\* ---- properties ----------------------------------------------------------
Max(a, b) == IF a >= b THEN a ELSE b

Count(a, list) == Cardinality({j \in 1..Len(list) : list[j] = a})

Distinct(list) == Cardinality(Range(list)) = Len(list)

RECURSIVE AllMembers(_)
AllMembers(pods) ==
    IF pods = <<>> THEN <<>> ELSE Head(pods).darknodes \o AllMembers(Tail(pods))

SlotFree(slot) == IsRegisteredQuery(NodeAt(slot)) /\ positionInOcean[slot] = -1

SubsetsOfSize(S, size) == {T \in SUBSET S : Cardinality(T) = size}

\* C1: getPods terminates for every list of at least one node and every
\* minimum pod size of at least 1, unregistered nodes included: whenever the
\* inner loop runs, a registered, unused slot exists for its cursor to reach
\* (the loop leaves only at such a slot, so without one it never ends).
C1_InnerLoopFindsNode ==
    pc = "while" => \E slot \in 0..(Len(darknodes) - 1) : SlotFree(slot)

\* C2: in every state of getPods and in the returned list, no pod holds the
\* address of a node that is not registered.
C2_NoUnregisteredInPods ==
    \A p \in 1..Len(pools) : \A a \in Range(pools[p].darknodes) : registered[a]

C2_Witness ==
    /\ pc = "while"
    /\ \E a \in Range(darknodes) : ~registered[a]
    /\ \E p \in 1..Len(pools) : pools[p].darknodes # <<>>

\* C3: for distinct addresses whose number is a multiple of numberOfPods, the
\* returned pods partition the list: every address of the list is in exactly
\* one pod, exactly once, and the pods hold nothing else.
C3_PodsPartition ==
    (pc = "returned" /\ Distinct(darknodes) /\ Len(darknodes) % numberOfPods = 0) =>
        /\ \A a \in Range(darknodes) : Count(a, AllMembers(pools)) = 1
        /\ Range(AllMembers(pools)) = Range(darknodes)

C3_Witness ==
    /\ pc = "returned"
    /\ Distinct(darknodes)
    /\ Len(darknodes) >= 2
    /\ numberOfPods >= 2
    /\ Len(darknodes) % numberOfPods = 0

\* C4: two runs of getPods on the same list, flags, minimum pod size and epoch
\* return the same pods (number, ordered members, ids), and two pods with the
\* same ordered members have the same id.
C4_Deterministic ==
    (pc = "returned" /\ callNo = 2) =>
        /\ epoch = prevEpoch => pools = prevPools
        /\ \A p \in 1..Len(pools) : \A q \in 1..Len(prevPools) :
              pools[p].darknodes = prevPools[q].darknodes => pools[p].id = prevPools[q].id

C4_Witness ==
    /\ pc = "returned"
    /\ callNo = 2
    /\ epoch = prevEpoch
    /\ Len(pools) >= 2

\* C5 as stated: for a fixed set of nodes with totalNodes > minimumPodSize, two
\* different epochs give assignments that differ in at least one pod.
C5_AnyEpochChange ==
    (/\ pc = "returned"
     /\ callNo = 2
     /\ Distinct(darknodes)
     /\ Len(darknodes) > minimumPodSize
     /\ epoch # prevEpoch) =>
        \E p \in 1..Len(pools) : pools[p].darknodes # prevPools[p].darknodes

\* C5 as amended: for a fixed list of distinct nodes with
\* totalNodes > minimumPodSize, two epochs that are not congruent modulo
\* totalNodes give assignments that differ in the ordered member list of at
\* least one pod.
C5_EpochChangeModTotal ==
    (/\ pc = "returned"
     /\ callNo = 2
     /\ Distinct(darknodes)
     /\ Len(darknodes) > minimumPodSize
     /\ epoch % Len(darknodes) # prevEpoch % Len(darknodes)) =>
        \E p \in 1..Len(pools) : pools[p].darknodes # prevPools[p].darknodes

C5_Witness ==
    /\ pc = "returned"
    /\ callNo = 2
    /\ Distinct(darknodes)
    /\ Len(darknodes) > minimumPodSize
    /\ epoch % Len(darknodes) # prevEpoch % Len(darknodes)

\* C6: an empty list is rejected with the no-nodes message, also when the
\* minimum pod size is 0; a non-empty list with minimum pod size 0 is rejected
\* with the invalid-pod-size message; a rejected call has formed no pod and
\* made no isRegistered query.
C6_Rejections ==
    /\ (pc # "getPods" /\ Len(darknodes) = 0) =>
            (pc = "rejected" /\ error = ErrNoDarknodes)
    /\ (pc # "getPods" /\ Len(darknodes) > 0 /\ minimumPodSize = 0) =>
            (pc = "rejected" /\ error = ErrInvalidPodSize)
    /\ (pc = "rejected" /\ error \in {ErrNoDarknodes, ErrInvalidPodSize}) =>
            (pools = <<>> /\ ~queried)

C6_Witness ==
    /\ pc = "rejected"
    /\ Len(darknodes) = 0
    /\ minimumPodSize = 0

\* C7: getPods returns max(1, floor(totalNodes / minimumPodSize)) pods; with
\* fewer nodes than the minimum pod size it returns one pod holding all nodes.
C7_NumberOfPods ==
    pc = "returned" =>
        /\ Len(pools) = Max(1, Len(darknodes) \div minimumPodSize)
        /\ Len(darknodes) < minimumPodSize =>
              /\ Len(pools) = 1
              /\ Len(pools[1].darknodes) = Len(darknodes)
              /\ \A a \in Range(darknodes) :
                    Count(a, pools[1].darknodes) = Count(a, darknodes)

C7_Witness ==
    /\ pc = "returned"
    /\ Len(darknodes) >= 2
    /\ Len(darknodes) < minimumPodSize

\* C8: with all nodes registered and totalNodes >= minimumPodSize >= 1, every
\* returned pod is non-empty and has at least minimumPodSize members, and two
\* pods differ in size by at most one.
C8_PodSizes ==
    (/\ pc = "returned"
     /\ \A a \in Range(darknodes) : registered[a]
     /\ Len(darknodes) >= minimumPodSize
     /\ minimumPodSize >= 1) =>
        /\ \A p \in 1..Len(pools) :
              /\ Len(pools[p].darknodes) >= 1
              /\ Len(pools[p].darknodes) >= minimumPodSize
        /\ \A p, q \in 1..Len(pools) :
              Len(pools[p].darknodes) - Len(pools[q].darknodes) <= 1

C8_Witness ==
    /\ pc = "returned"
    /\ Len(darknodes) >= minimumPodSize
    /\ \E p, q \in 1..Len(pools) : Len(pools[p].darknodes) > Len(pools[q].darknodes)

\* C9: for the size n of every pod the builder takes from getPods, n >= 1 and
\* k = floor(2 (n + 1) / 3) satisfy 1 <= k <= n and n - k >= floor((n - 1) / 3).
C9_ThresholdInRange ==
    \A p \in 1..Len(podN) :
        /\ podN[p] = Len(pools[p].darknodes)
        /\ podN[p] >= 1
        /\ podK[p] >= 1
        /\ podK[p] <= podN[p]
        /\ podN[p] - podK[p] >= (podN[p] - 1) \div 3

C9_Witness ==
    \E p \in 1..Len(podN) : podN[p] >= 7 /\ (podN[p] - 1) \div 3 >= 2

\* C10: any k of the n shares of a split value of a pool reconstruct the value
\* by Lagrange interpolation over the field; in a pod of 3 nodes any 2 of the
\* 3 shares of price.c reconstruct price.c.
\* (shares are written by PoolSplit alone, which ends at "map")
C10_AnyKSharesReconstruct ==
    pc = "map" => \A p \in 1..Len(shares) :
        /\ \A f \in Fields :
              /\ Len(shares[p][f]) = podN[p]
              /\ \A held \in SubsetsOfSize(1..podN[p], podK[p]) :
                    Reconstruct({shares[p][f][j] : j \in held}) = order[f]
        /\ podN[p] = 3 =>
              \A held \in SubsetsOfSize(1..3, 2) :
                    Reconstruct({shares[p]["price.c"][j] : j \in held}) = order["price.c"]

C10_Witness ==
    \E p \in 1..Len(shares) :
        /\ podN[p] = 3
        /\ podK[p] = 2
        /\ shares[p]["price.c"][1].value # order["price.c"]
        /\ order["price.c"] # 0

RECURSIVE DecodeBE(_)
DecodeBE(bytes) ==
    IF bytes = <<>> THEN 0
    ELSE DecodeBE(SubSeq(bytes, 1, Len(bytes) - 1)) * 256 + bytes[Len(bytes)]

DifferingKeys(o1, o2) == {key \in OrderKeys : o1[key] # o2[key]}

\* C11: verifyOrder accepts an order exactly when price.c is in 0..1999,
\* price.q in 0..52, volume.c and minimumVolume.c in 0..49 and volume.q and
\* minimumVolume.q in 0..52; a rejected order gets the invalid-details error.
C11_VerifyOrderBounds ==
    pc \in {"signing", "rejected"} =>
        /\ pc = "signing" <=>
              /\ order["price.c"] \in 0..1999
              /\ order["price.q"] \in 0..52
              /\ order["volume.c"] \in 0..49
              /\ order["minimumVolume.c"] \in 0..49
              /\ order["volume.q"] \in 0..52
              /\ order["minimumVolume.q"] \in 0..52
        /\ pc = "rejected" => error = ErrorInvalidOrderDetails
        /\ order["price.c"] = 2000 => pc = "rejected"
        /\ order["volume.c"] = 50 => pc = "rejected"

C11_Witness ==
    /\ pc = "signing"
    /\ order["price.c"] = 1999
    /\ order["volume.c"] = 0
    /\ order["minimumVolume.q"] = 52

\* C13 as stated: the preimage of getOrderID has exactly 110 bytes.
C13_Preimage110 ==
    pc = "hashed" => Len(orderId.preimage) = 110

\* C13 as amended: getOrderID hashes a preimage of exactly 102 bytes,
\* type(1) parity(1) settlement(4) expiry(8) tokens(8) price.c(8) price.q(8)
\* volume.c(8) volume.q(8) minimumVolume.c(8) minimumVolume.q(8)
\* hash(nonce as 8 bytes)(32), all big-endian; the id is the hash of these
\* bytes, and the same order gives the same bytes and the same id.
C13_PreimageLayout ==
    pc = "hashed" =>
        LET bytes == orderId.preimage
            At(first, last) == DecodeBE(SubSeq(bytes, first, last))
        IN  /\ Len(bytes) = 102
            /\ At(1, 1) = order["type"]
            /\ At(2, 2) = order["parity"]
            /\ At(3, 6) = order["orderSettlement"]
            /\ At(7, 14) = order["expiry"]
            /\ At(15, 22) = order["tokens"]
            /\ At(23, 30) = order["price.c"]
            /\ At(31, 38) = order["price.q"]
            /\ At(39, 46) = order["volume.c"]
            /\ At(47, 54) = order["volume.q"]
            /\ At(55, 62) = order["minimumVolume.c"]
            /\ At(63, 70) = order["minimumVolume.q"]
            /\ \A j \in 71..102 :
                  /\ Len(bytes[j][1]) = 8
                  /\ DecodeBE(bytes[j][1]) = order["nonce"]
            /\ orderId.id = Keccak256(bytes)
            /\ firstOrder = order => orderId = firstId

C13_Witness ==
    /\ pc = "hashed"
    /\ firstOrder = order
    /\ order["price.c"] = 1999

\* C14 as stated: two orders that differ in exactly one field never have the
\* same preimage (and so, the hash being injective, never the same id).
C14_AnyFieldChangesId ==
    (/\ pc = "hashed"
     /\ firstOrder # NoOrder
     /\ Cardinality(DifferingKeys(firstOrder, order)) = 1) =>
        /\ orderId.preimage # firstId.preimage
        /\ orderId.id # firstId.id

\* C14 as amended: two orders that differ in exactly one field other than
\* signature and id (fields not negative and within their encoded widths)
\* never have the same preimage, and so never the same id.
C14_HashedFieldChangesId ==
    (/\ pc = "hashed"
     /\ firstOrder # NoOrder
     /\ Cardinality(DifferingKeys(firstOrder, order)) = 1
     /\ DifferingKeys(firstOrder, order) \subseteq HashedKeys) =>
        /\ orderId.preimage # firstId.preimage
        /\ orderId.id # firstId.id

C14_Witness ==
    /\ pc = "hashed"
    /\ firstOrder # NoOrder
    /\ DifferingKeys(firstOrder, order) = {"expiry"}
    /\ order["expiry"] = firstOrder["expiry"] + 256

\* ---- the builder: fragments, keys and the reducer --------------------------
\* the eight encrypted values of a fragment
Ciphertexts(frag) ==
    [f \in Fields |->
        CASE f = "tokens" -> frag.tokens
          [] f = "price.c" -> frag.price[1]
          [] f = "price.q" -> frag.price[2]
          [] f = "volume.c" -> frag.volume[1]
          [] f = "volume.q" -> frag.volume[2]
          [] f = "minimumVolume.c" -> frag.minimumVolume[1]
          [] f = "minimumVolume.q" -> frag.minimumVolume[2]
          [] f = "nonce" -> frag.nonce]

KeyAbsent(a) == publicKeys[a] \in {KeyNull, KeyEmpty}
SomeKeyRejects == \E a \in DOMAIN publicKeys : publicKeys[a] = KeyRejects

\* the fragments pushed so far, as (pool, position) pairs
Pushed == {pj \in (1..Len(poolFragments)) \X (1..MaxBuildNodes + 1) :
              pj[2] <= Len(poolFragments[pj[1]])}

\* C12 (as stated): an order outside the bounds of verifyOrder is refused by
\* the builder before any share or fragment is made.
C12_InvalidOrderRefused ==
    (order # NoOrder /\ ~VerifyOrder(order))
        => (shares = <<>> /\ poolFragments = <<>> /\ pc # "built")

\* C15: the eight ciphertexts of a fragment are the empty string exactly when
\* the registry has no key (null or the empty string) for the fragment's
\* darknode; a missing key never rejects the build, and the build returns a
\* fragment for every darknode of every pod.
C15_AbsentKeyEmptyCiphertext ==
    /\ \A pj \in Pushed :
          LET frag == poolFragments[pj[1]][pj[2]]
              darknode == pools[pj[1]].darknodes[pj[2]]
          IN  /\ KeyAbsent(darknode)
                    => \A f \in Fields : Ciphertexts(frag)[f] = EmptyString
              /\ (\E f \in Fields : Ciphertexts(frag)[f] = EmptyString)
                    => KeyAbsent(darknode)
    /\ (pc = "rejected" /\ order # NoOrder) => SomeKeyRejects
    /\ (pc = "mapped" /\ ~SomeKeyRejects /\ reduced < Len(pools))
          => (ENABLED Merge \/ \E p \in 1..Len(pools) : poolStatus[p] = "awaitKey")
    /\ pc = "built"
          => \A p \in 1..Len(pools) :
                Len(result[pools[p].id]) = Len(pools[p].darknodes)

C15_Witness ==
    /\ pc = "built"
    /\ Len(pools) >= 2
    /\ \E p \in 1..Len(pools) :
          /\ Len(pools[p].darknodes) >= 2
          /\ \E j \in 1..Len(result[pools[p].id]) :
                /\ publicKeys[pools[p].darknodes[j]] = KeyEmpty
                /\ result[pools[p].id][j].tokens = EmptyString

\* C16 (as stated): a key lookup that fails for one darknode does not reject
\* the build.
C16_LookupFailureIsolated == SomeKeyRejects => pc # "rejected"

\* C17: the returned Map has exactly one entry per pod, keyed by the pod id;
\* the entry of a pod has one fragment per member; fragment j has index j and
\* holds, for the j-th member, the j-th share of each of the eight values.
C17_OneFragmentPerMember ==
    pc = "built" =>
        /\ DOMAIN result = {pools[p].id : p \in 1..Len(pools)}
        /\ Cardinality(DOMAIN result) = Len(pools)
        /\ \A p \in 1..Len(pools) :
              LET frags == result[pools[p].id]
                  members == pools[p].darknodes
              IN  /\ Len(frags) = Len(members)
                  /\ \A j \in 1..Len(frags) :
                        /\ frags[j].index = j
                        /\ ~KeyAbsent(members[j])
                              => \A f \in Fields :
                                    Decrypt([owner |-> members[j]],
                                            Ciphertexts(frags[j])[f][2])
                                        = ToBytesBE(shares[p][f][j].index, 8)
                                            \o ToBytesBE(shares[p][f][j].value, 8)

C17_Witness ==
    /\ pc = "built"
    /\ Len(darknodes) = 3
    /\ Len(pools) = 1
    /\ Len(result[pools[1].id]) = 3
    /\ \A j \in 1..3 : result[pools[1].id][j].index = j
    /\ \A a \in DOMAIN publicKeys : publicKeys[a] = KeyHex

\* fragment j of pod p, from the inputs of the build alone
ExpectedFragment(p, j) ==
    NewOrderFragment(order,
                     GetDarknodePublicKey(publicKeys[pools[p].darknodes[j]],
                                          pools[p].darknodes[j]),
                     shares[p], j - 1)

\* C18: however the computations of the pods interleave, the fragments a pod
\* has pushed are in ascending index order and are the pod's own, and the
\* returned Map holds under every pod id the fragments of that pod.
C18_InterleavingIndependent ==
    /\ \A p \in 1..Len(poolFragments) :
          /\ Len(poolFragments[p]) <= Len(pools[p].darknodes)
          /\ \A j \in 1..Len(poolFragments[p]) :
                /\ poolFragments[p][j].index = j
                /\ poolFragments[p][j] = ExpectedFragment(p, j)
    /\ pc = "built"
          => \A p \in 1..Len(pools) :
                /\ Len(result[pools[p].id]) = Len(pools[p].darknodes)
                /\ \A j \in 1..Len(pools[p].darknodes) :
                      result[pools[p].id][j] = ExpectedFragment(p, j)

\* two pods of two darknodes each; the second pod settled before the first
C18_Witness ==
    /\ pc = "built"
    /\ Len(pools) = 2
    /\ \A p \in 1..2 : Len(pools[p].darknodes) = 2
    /\ completed = <<2, 1>>

\* C20 (as stated): every fragment carries unchanged copies of the order's
\* type, parity, settlement, expiry, tokens, id and signature.
C20_AllMetadataCopied ==
    \A pj \in Pushed :
        LET frag == poolFragments[pj[1]][pj[2]]
        IN  /\ frag.orderType = order["type"]
            /\ frag.orderParity = order["parity"]
            /\ frag.orderSettlement = order["orderSettlement"]
            /\ frag.orderExpiry = order["expiry"]
            /\ frag.orderId = order["id"]
            /\ frag.orderSignature = order["signature"]
            /\ frag.tokens = ToBase64(ToBytesBE(order["tokens"], 8))

FragmentCopiesMetadata ==
    \A pj \in Pushed :
        LET frag == poolFragments[pj[1]][pj[2]]
        IN  /\ frag.orderType = order["type"]
            /\ frag.orderParity = order["parity"]
            /\ frag.orderSettlement = order["orderSettlement"]
            /\ frag.orderExpiry = order["expiry"]
            /\ frag.orderId = order["id"]
            /\ frag.orderSignature = order["signature"]

\* C20 (amended): every fragment carries unchanged copies of the order's
\* type, parity, settlement, expiry, id and signature (tokens is shared and
\* encrypted like the other values), and the build never changes its order.
C20_MetadataCopied ==
    /\ []FragmentCopiesMetadata
    /\ [][order # NoOrder => order' = order]_vars

C20_Witness ==
    /\ pc = "built"
    /\ \E pj \in Pushed :
          /\ poolFragments[pj[1]][pj[2]].orderSignature = 71
          /\ poolFragments[pj[1]][pj[2]].tokens # ToBase64(ToBytesBE(order["tokens"], 8))

\* ---- the registry as a snapshot -------------------------------------------
\* the first slot at or after cursor that is not in used
FirstFree(cursor, used, total) ==
    LET d == CHOOSE d \in 0..total - 1 :
                 /\ ((cursor + d) % total) \notin used
                 /\ \A e \in 0..d - 1 : ((cursor + e) % total) \in used
    IN  (cursor + d) % total

\* the slots taken step by step when every listed darknode is registered
RECURSIVE SnapshotSlots(_, _, _)
SnapshotSlots(cursor, used, total) ==
    IF Cardinality(used) = total THEN <<>>
    ELSE LET slot == FirstFree(cursor, used, total)
         IN  <<slot>> \o SnapshotSlots((slot + epoch) % total, used \cup {slot}, total)

\* the members of pod p (from 0) among numPods pods: the darknodes of the steps
\* p, p + numPods, p + 2 numPods, ...
SnapshotMembers(p, numPods) ==
    LET total == Len(darknodes)
        slots == SnapshotSlots(epoch % total, {}, total)
        size == Cardinality({step \in 0..total - 1 : step % numPods = p})
    IN  [j \in 1..size |-> darknodes[slots[p + (j - 1) * numPods + 1] + 1]]

\* C19 (as stated): a call reads the registry as one snapshot, so the pods it
\* returns are those of the registry as it was when the call began (every
\* listed darknode registered, each in the pod of its step), whatever the
\* registry does while the call runs.
C19_RegistrySnapshot ==
    pc = "returned"
        => /\ \A a \in Range(darknodes) : startRegistered[a]
           /\ \A p \in 1..Len(pools) :
                 pools[p].darknodes = SnapshotMembers(p - 1, Len(pools))

\* ---- the pod assignment as specified ---------------------------------------
\* the first slot at or after cursor whose darknode is registered and that is
\* not in used; -1 if there is none
SpecifiedProbe(cursor, used, total) ==
    LET free(d) == /\ ((cursor + d) % total) \notin used
                   /\ registered[darknodes[((cursor + d) % total) + 1]]
    IN  IF \E d \in 0..total - 1 : free(d)
        THEN LET d == CHOOSE d \in 0..total - 1 :
                          free(d) /\ \A e \in 0..d - 1 : ~free(e)
             IN  (cursor + d) % total
        ELSE -1

\* the slots of the first steps selections, with stride = epoch mod total
RECURSIVE SpecifiedSlots(_, _, _, _)
SpecifiedSlots(cursor, used, total, steps) ==
    IF steps = 0 THEN <<>>
    ELSE LET stride == epoch % total
             slot == SpecifiedProbe(cursor, used, total)
         IN  <<slot>> \o SpecifiedSlots((slot + stride) % total, used \cup {slot},
                                        total, steps - 1)

\* pod p (from 0) of numPods pods after the first steps selections
SpecifiedPod(p, numPods, steps) ==
    LET total == Len(darknodes)
        slots == SpecifiedSlots((epoch % total) % total, {}, total, steps)
        size == Cardinality({step \in 0..steps - 1 : step % numPods = p})
        nodeOf(slot) == IF slot = -1 THEN 0 ELSE darknodes[slot + 1]
    IN  [j \in 1..size |-> nodeOf(slots[p + (j - 1) * numPods + 1])]

\* C23: at every point of its loop, and when it returns, getPods has put into
\* every pod the nodes the specified algorithm (stride = epoch mod totalNodes,
\* circular linear probing for the first registered unused node, selection i
\* into pod i mod numberOfPods) selects in its first i steps.
C23_PodsAsSpecified ==
    pc \in {"outer", "while", "ids", "returned"}
        => \A p \in 1..Len(pools) :
              pools[p].darknodes = SpecifiedPod(p - 1, Len(pools), i)

C23_Witness ==
    /\ pc = "returned"
    /\ Len(darknodes) = 3
    /\ epoch = 4
    /\ Len(pools) = 3
    /\ pools[2].darknodes = <<darknodes[3]>>

\* ---- sdk.verifyOrder -------------------------------------------------------
\* C21: verifyOrder throws "invalid id" exactly when the caller supplied an id
\* that differs from the id computed from the order's fields; a matching id is
\* left as it is, a missing id is set to the computed one, and the id of the
\* returned order is the id computed from its fields.
C21_IdDerivedFromContent ==
    /\ pc = "rejected"
          => /\ error = ErrInvalidId
             /\ env.supplied # NoId
             /\ env.supplied # OrderIdOf(IngressOrderOf(inputs, env.decimals))
             /\ inputs.id = env.supplied
    /\ pc = "verified"
          => /\ returned.id = OrderIdOf(IngressOrderOf(returned, env.decimals))
             /\ env.supplied # NoId => returned.id = env.supplied
             /\ returned.nonce # Undefined /\ returned.expiry # Undefined

C21_Witness ==
    /\ pc = "verified"
    /\ env.supplied # NoId
    /\ returned.id = env.supplied
    /\ returned.price = 2

\* ---- sdk.openOrder ---------------------------------------------------------
\* the call is past the hashing of its order
PastHash == pc \in {"atom", "build", "submit", "tx", "store", "opened"}

\* C22 (as stated): a nonce that has reached the hashing of the order is below
\* the field prime, whether it was drawn or supplied.
C22_NonceBelowPrime == PastHash => inputs.nonce < PRIME

\* the errors whose input check fails
FailedChecks ==
    LET o == inputs
    IN  {e \in {ErrInsufficientBalance, ErrInvalidPrice, ErrInvalidVolume,
                 ErrInvalidMinimumVolume, ErrVolumeBelowMinimum} :
            \/ e = ErrInsufficientBalance
                  /\ SpendVolume(o, env.priorityVolume) > env.balance
            \/ e = ErrInvalidPrice /\ o.price <= 0
            \/ e = ErrInvalidVolume /\ o.volume <= 0
            \/ e = ErrInvalidMinimumVolume /\ o.minimumVolume <= 0
            \/ e = ErrVolumeBelowMinimum /\ o.volume < o.minimumVolume}

IsPrefix(s1, s2) == Len(s1) <= Len(s2) /\ s1 = SubSeq(s2, 1, Len(s1))

\* C25: the submissions happen in the order Atomic Swapper (atomic orders
\* only), ingress, orderbook, storage; the order is in storage only once the
\* transaction hash is there; a call that fails has written nothing.
C25_SubmissionOrder ==
    /\ IF inputs.orderSettlement = RenExAtomic
       THEN IsPrefix(effects, <<"atom", "ingress", "orderbook", "storage">>)
       ELSE IsPrefix(effects, <<"ingress", "orderbook", "storage">>)
    /\ pc = "submit" => effects = IF inputs.orderSettlement = RenExAtomic
                                  THEN <<"atom">> ELSE <<>>
    /\ stored # <<>>
          => /\ pc = "opened"
             /\ stored.transactionHash = <<"txHash", stored.id>>
             /\ effects[Len(effects)] = "storage"
    /\ pc = "rejected" => stored = <<>>
    /\ pc = "opened" => stored # <<>>

C25_Witness ==
    /\ pc = "opened"
    /\ effects = <<"atom", "ingress", "orderbook", "storage">>

\* ---- sdk.status ------------------------------------------------------------
\* C26 (as stated): when the orderbook reports Confirmed, the status that
\* status returns is neither OPEN nor NOT_SUBMITTED.
C26_ConfirmedNeverOpen ==
    (env.orderbook = CONFIRMED /\ pc \in {"update", "statusDone"})
        => returned \notin {OPEN, NOT_SUBMITTED}

\* C27 (as stated): once the two storage updates of one status call on a
\* stored order are complete, the stored order holds the match details and
\* the status that status returned.
C27_NoLostUpdate ==
    (/\ Len(tasks) = 2
     /\ \A t \in 1..2 : tasks[t].at = "done"
     /\ stored # NoStoredOrder)
        => /\ stored.matchDetails = tasks[1].value
           /\ stored.status = returned

\* ---- fetchOrderStatus --------------------------------------------------------
BlocksTimedOut ==
    /\ ~env.currentBlock.throws /\ env.currentBlock.value > 0
    /\ ~env.orderBlock.throws /\ env.orderBlock.value > 0
    /\ env.currentBlock.value - env.orderBlock.value > 300

FetchAnswered == pc \in {"fetch.update", "fetched"}

\* C28 (as stated): fetchOrderStatus returns FAILED_TO_SETTLE only when the
\* orderbook reports Confirmed, the stored order is a RenEx order, the
\* settlement status is still CONFIRMED and both block numbers are positive
\* and more than 300 apart; an unreadable block number leaves CONFIRMED.
C28_FailedOnlyAfterTimeout ==
    /\ (FetchAnswered /\ returned = FAILED_TO_SETTLE)
          => /\ env.orderbook = CONFIRMED
             /\ stored # NoStoredOrder
             /\ stored.computedOrderDetails.orderSettlement = RenEx
             /\ inputs.orderStatus = CONFIRMED
             /\ BlocksTimedOut
    /\ (/\ FetchAnswered
        /\ inputs.orderStatus = CONFIRMED
        /\ env.currentBlock.throws \/ env.orderBlock.throws)
          => returned = CONFIRMED

\* C28 (amended): fetchOrderStatus returns FAILED_TO_SETTLE only when the
\* orderbook reports Confirmed and either settlementStatus itself returned
\* FAILED_TO_SETTLE (the stored status of an unmatched order, or the answer of
\* the Swapper) or the stored order is a RenEx order, the settlement status is
\* still CONFIRMED and both block numbers are positive and more than 300
\* apart; an unreadable block number leaves CONFIRMED.
C28_FailedAfterTimeoutOrStored ==
    /\ (FetchAnswered /\ returned = FAILED_TO_SETTLE)
          => /\ env.orderbook = CONFIRMED
             /\ \/ /\ inputs.orderStatus = FAILED_TO_SETTLE
                   /\ stored # NoStoredOrder
                   /\ \/ stored.status = FAILED_TO_SETTLE
                      \/ /\ stored.computedOrderDetails.orderSettlement = RenExAtomic
                         /\ env.atomConnected
                         /\ env.swapper = FAILED_TO_SETTLE
                \/ /\ stored # NoStoredOrder
                   /\ stored.computedOrderDetails.orderSettlement = RenEx
                   /\ inputs.orderStatus = CONFIRMED
                   /\ BlocksTimedOut
    /\ (/\ FetchAnswered
        /\ inputs.orderStatus = CONFIRMED
        /\ env.currentBlock.throws \/ env.orderBlock.throws)
          => returned = CONFIRMED

C28_Witness ==
    /\ pc = "fetch.update"
    /\ returned = FAILED_TO_SETTLE
    /\ inputs.orderStatus = CONFIRMED
    /\ BlocksTimedOut

\* ---- getOrders and listOrders --------------------------------------------------
\* the orders that satisfy every supplied filter, in the original order
Satisfying(orders, filter) ==
    SelectSeq(orders,
              LAMBDA o : /\ filter.status # NoStatus => o[2] = filter.status
                         /\ filter.address # NoAddress =>
                                ToLowerCase(o[3]) = ToLowerCase(filter.address))

\* C29 (as stated): getOrders and listOrders reject a filter status other than
\* NOT_SUBMITTED, OPEN and CONFIRMED, and otherwise return exactly the orders
\* that satisfy every supplied filter, in the original order.
C29_ListingFilters ==
    /\ pc = "rejected" => UnsupportedFilter(inputs.filter)
    /\ pc = "listed" =>
          /\ ~UnsupportedFilter(inputs.filter)
          /\ LET expected == Satisfying(env.orders, inputs.filter)
             IN  /\ Len(returned) = Len(expected)
                 /\ \A n \in 1..Len(expected) :
                        /\ returned[n].status = expected[n][2]
                        /\ returned[n].trader = expected[n][3]
                        /\ IF inputs.call = "getOrders"
                           THEN returned[n].id = expected[n][1]
                           ELSE returned[n].orderID = expected[n][1]

\* ---- EncodedData -----------------------------------------------------------------
\* the bytes denoted by hex text are the same with and without the 0x prefix
PrefixIrrelevant(hexText) ==
    /\ Parse(<<"0", "x">> \o hexText, HEX).error = ""
    /\ Parse(hexText, HEX).error = ""
    /\ ToBuffer(Parse(<<"0", "x">> \o hexText, HEX)) = ToBuffer(Parse(hexText, HEX))

\* C30 (as stated): a buffer converted with toHex or toBase64 and parsed again
\* with the matching encoding yields the same bytes, the empty buffer
\* included; hex text with and without the 0x prefix denotes the same bytes.
C30_RoundTripAll ==
    /\ pc # "rejected"
    /\ pc = "decoded" => returned = inputs.buffer
    /\ pc = "text" => PrefixIrrelevant(BufferToHex(inputs.buffer))

\* C30 (amended): a buffer converted with toBase64 and parsed again yields the
\* same bytes; so does one converted with toHex, unless it is empty: the
\* empty buffer comes back from hex as the single byte 0; no conversion
\* throws, and hex text with and without the 0x prefix denotes the same bytes.
C30_RoundTripButEmptyHex ==
    /\ pc # "rejected"
    /\ pc = "decoded" =>
          IF inputs.encoding = HEX /\ inputs.buffer = <<>>
          THEN returned = <<0>>
          ELSE returned = inputs.buffer
    /\ pc = "text" => PrefixIrrelevant(BufferToHex(inputs.buffer))

C30_Witness ==
    /\ pc = "decoded"
    /\ inputs.encoding = HEX
    /\ inputs.prefix # <<>>
    /\ Len(inputs.buffer) = MaxBytes
    /\ returned = inputs.buffer

====
